---- MODULE Spec2Model ----
(***************************************************************************)
(* A model of the YNAB auto-categorizer (src/ynab_auto_categorizer.py):    *)
(* the rule store, the matcher, the interactive categorization session,    *)
(* the report aggregator, the budget comparison and the report and e-mail  *)
(* commands.                                                               *)
(*                                                                         *)
(* Conventions.  Text is a TLA+ string, read as a sequence of characters   *)
(* (Len, SubSeq, \o).  Python's None is the sentinel string None, which no *)
(* input pool contains.  The amount of a transaction (the float            *)
(* t["amount"] / 1000) is kept exact, as its number of thousandths: its    *)
(* sign, and its order against the literal 50 of the code (50 * Scale      *)
(* thousandths), are those of the float.  The figures of a budget line are *)
(* IEEE-754 doubles, because the budget comparison multiplies them.        *)
(*                                                                         *)
(* Alphabet.  TLC keeps one byte per character when it writes a state to   *)
(* disk, so every character of a text is an ASCII character here; each     *)
(* non-ASCII character of the source's texts is written as an ASCII        *)
(* character those texts do not use:                                       *)
(*     á @   é #   í !   ó *   ú ~   ñ ^   º =                             *)
(*     Á $   É %   Í |   Ó +   Ú _   Ñ ;                                   *)
(* ("Transporte Público" is "Transporte P~blico").  LowerMap pairs the     *)
(* letters as str.lower() does, and CodePoints lists the alphabet in the   *)
(* order of the code points of the characters stood for.                   *)
(***************************************************************************)
EXTENDS Integers, Sequences, FiniteSets, TLC

None == "<None>"

\* Python truthiness of an optional text: None and "" are falsy.
Falsy(v) == v = None \/ v = ""

\* amount = transaction["amount"] / 1000, in thousandths (line 224, 395)
Scale == 1000

(***************************************************************************)
(* Text helpers: str.lower(), `k in s`.                                    *)
(***************************************************************************)
UpperChars == "ABCDEFGHIJKLMNOPQRSTUVWXYZ$%|+_;"
LowerChars == "abcdefghijklmnopqrstuvwxyz@#!*~^"

\* the lower-case form of each upper-case character
LowerMap ==
    [c \in {SubSeq(UpperChars, i, i) : i \in 1..Len(UpperChars)} |->
        LET i == CHOOSE j \in 1..Len(UpperChars) : SubSeq(UpperChars, j, j) = c
        IN  SubSeq(LowerChars, i, i)]

LowerChar(c) == IF c \in DOMAIN LowerMap THEN LowerMap[c] ELSE c

RECURSIVE Lower(_)
Lower(s) ==
    IF Len(s) = 0 THEN ""
    ELSE LowerChar(SubSeq(s, 1, 1)) \o Lower(SubSeq(s, 2, Len(s)))

\* Python's `k in s` on strings: k occurs as a contiguous substring of s.
Contains(s, k) ==
    \E i \in 1..(Len(s) - Len(k) + 1) : SubSeq(s, i, i + Len(k) - 1) = k

(***************************************************************************)
(* Rule store.  A rule set is Python's insertion-ordered dict, modelled as *)
(* a sequence of [name, keywords] entries with pairwise distinct names.    *)
(***************************************************************************)
DefaultRules == <<
    [name |-> "Supermercado", keywords |-> <<"mercadona", "carrefour", "lidl", "aldi", "dia", "eroski", "alcampo", "hipercor">>],
    [name |-> "Restaurantes y bares", keywords |-> <<"restaurant", "mcdonald", "burger", "pizza", "kebab", "cafeteria", "bar", "cerveceria">>],
    [name |-> "Gasolina", keywords |-> <<"shell", "repsol", "cepsa", "bp", "galp", "gasolinera">>],
    [name |-> "Transporte P~blico", keywords |-> <<"metro", "renfe", "uber", "cabify", "taxi", "bus", "emt">>],
    [name |-> "Suscripciones", keywords |-> <<"netflix", "spotify", "hbo", "disney", "prime video", "youtube", "apple">>],
    [name |-> "Internet y m*viles", keywords |-> <<"vodafone", "movistar", "orange", "yoigo", "masmovil", "pepephone", "digi">>],
    [name |-> "Suministros (luz, agua y gas)", keywords |-> <<"iberdrola", "endesa", "naturgy", "aqualia", "octopus", "holaluz">>],
    [name |-> "Ropa", keywords |-> <<"zara", "h&m", "mango", "pull&bear", "bershka", "primark", "decathlon">>],
    [name |-> "Salud y belleza", keywords |-> <<"farmacia", "pharmacy", "druni", "primor", "sephora">>],
    [name |-> "Deporte", keywords |-> <<"gym", "gimnasio", "fitness", "mcfit", "basicfit">>] >>

\* dict lookups on the ordered dict
HasKey(d, name) == \E i \in 1..Len(d) : d[i].name = name
KeyIndex(d, name) == CHOOSE i \in 1..Len(d) : d[i].name = name
InList(l, x) == \E i \in 1..Len(l) : l[i] = x

\* d[name] = value on the ordered dict: an existing key keeps its position.
DictSet(d, name, value) ==
    IF HasKey(d, name)
    THEN [d EXCEPT ![KeyIndex(d, name)] = [name |-> name, keywords |-> value]]
    ELSE Append(d, [name |-> name, keywords |-> value])

\* str.strip(): leading and trailing whitespace removed.
IsSpace(c) == c = " " \/ c = "\t"

RECURSIVE LStrip(_)
LStrip(s) ==
    IF Len(s) > 0 /\ IsSpace(SubSeq(s, 1, 1)) THEN LStrip(SubSeq(s, 2, Len(s))) ELSE s

RECURSIVE RStrip(_)
RStrip(s) ==
    IF Len(s) > 0 /\ IsSpace(SubSeq(s, Len(s), Len(s)))
    THEN RStrip(SubSeq(s, 1, Len(s) - 1)) ELSE s

Strip(s) == RStrip(LStrip(s))

(***************************************************************************)
(* The rule file.  json.dump writes the dict as a JSON object of arrays of *)
(* strings; the file is modelled as its sequence of JSON tokens (white     *)
(* space, which indent=2 adds, carries nothing).  A string token is the    *)
(* text between double quotes.                                             *)
(***************************************************************************)
Quote(s) == "\"" \o s \o "\""
IsQuoted(t) == Len(t) >= 2 /\ SubSeq(t, 1, 1) = "\"" /\ SubSeq(t, Len(t), Len(t)) = "\""
Unquote(t) == SubSeq(t, 2, Len(t) - 1)

RECURSIVE DumpList(_)
DumpList(l) ==
    IF Len(l) = 0 THEN <<>>
    ELSE IF Len(l) = 1 THEN <<Quote(l[1])>>
    ELSE <<Quote(l[1]), ",">> \o DumpList(Tail(l))

RECURSIVE DumpItems(_)
DumpItems(d) ==
    IF Len(d) = 0 THEN <<>>
    ELSE LET item == <<Quote(d[1].name), ":", "[">> \o DumpList(d[1].keywords) \o <<"]">>
         IN  IF Len(d) = 1 THEN item ELSE item \o <<",">> \o DumpItems(Tail(d))

\* A plausible slip: json.dump(..., sort_keys=True) style reordering, here the
\* entries written last-first.
RECURSIVE DumpItemsReversed(_)
DumpItemsReversed(d) ==
    IF Len(d) = 0 THEN <<>>
    ELSE LET item == <<Quote(d[Len(d)].name), ":", "[">> \o DumpList(d[Len(d)].keywords) \o <<"]">>
         IN  IF Len(d) = 1 THEN item
             ELSE item \o <<",">> \o DumpItemsReversed(SubSeq(d, 1, Len(d) - 1))

DumpReordered(d) == <<"{">> \o DumpItemsReversed(d) \o <<"}">>

\* json.dump(self.categorization_rules, f, ensure_ascii=False, indent=2)
Dump(d) == <<"{">> \o DumpItems(d) \o <<"}">>

(* json.load on the token sequence, for the grammar                        *)
(*   { "name" : [ "kw" , ... ] , ... }                                     *)
(* Any other token sequence is a parse failure.  ParseList reads the       *)
(* strings of one array from position i (first says whether none was read  *)
(* yet) and returns the position after its "]".                            *)
ParseFail == [ok |-> FALSE, value |-> <<>>]
ListFail == [ok |-> FALSE, next |-> 0, value |-> <<>>]

RECURSIVE ParseList(_, _, _, _)
ParseList(toks, i, first, kws) ==
    IF i > Len(toks) THEN ListFail
    ELSE IF first /\ toks[i] = "]" THEN [ok |-> TRUE, next |-> i + 1, value |-> kws]
    ELSE IF ~IsQuoted(toks[i]) \/ i + 1 > Len(toks) THEN ListFail
    ELSE LET got == Append(kws, Unquote(toks[i]))
         IN  IF toks[i + 1] = "]" THEN [ok |-> TRUE, next |-> i + 2, value |-> got]
             ELSE IF toks[i + 1] = "," THEN ParseList(toks, i + 2, FALSE, got)
             ELSE ListFail

RECURSIVE ParseEntries(_, _, _)
\* one "name" : [ ... ] entry from position i, then "," and the next, or "}"
ParseEntries(toks, i, acc) ==
    IF i + 3 > Len(toks) THEN ParseFail
    ELSE IF ~(IsQuoted(toks[i]) /\ toks[i + 1] = ":" /\ toks[i + 2] = "[") THEN ParseFail
    ELSE LET l == ParseList(toks, i + 3, TRUE, <<>>)
         IN  IF ~l.ok \/ l.next > Len(toks) THEN ParseFail
             ELSE LET d == DictSet(acc, Unquote(toks[i]), l.value)
                  IN  IF toks[l.next] = "}"
                      THEN (IF l.next = Len(toks) THEN [ok |-> TRUE, value |-> d]
                            ELSE ParseFail)
                      ELSE IF toks[l.next] = "," THEN ParseEntries(toks, l.next + 1, d)
                      ELSE ParseFail

Parse(toks) ==
    IF Len(toks) < 2 \/ toks[1] # "{" THEN ParseFail
    ELSE IF toks[2] = "}" THEN (IF Len(toks) = 2 THEN [ok |-> TRUE, value |-> <<>>]
                                ELSE ParseFail)
    ELSE ParseEntries(toks, 2, <<>>)

NoFile == [exists |-> FALSE, tokens |-> <<>>]

\* _load_rules without the fallback: whatever the parser returned
LoadRulesNoFallback(file) == Parse(file.tokens).value

\* _load_rules: the file's content if it exists and parses, else the defaults
LoadRules(file) ==
    IF file.exists
    THEN LET p == Parse(file.tokens) IN IF p.ok THEN p.value ELSE DefaultRules
    ELSE DefaultRules

\* _save_rules: open(RULES_FILE, 'w') and json.dump of the whole dict
SaveRules(d) == [exists |-> TRUE, tokens |-> Dump(d)]

(* add_rule(category, keyword): the rule set and the file after the call,  *)
(* and whether the call wrote the file.                                    *)
AddRuleNoNormalise(d, file, category, keyword) ==
    LET d1 == IF HasKey(d, category) THEN d ELSE Append(d, [name |-> category, keywords |-> <<>>])
        i  == KeyIndex(d1, category)
        d2 == [d1 EXCEPT ![i].keywords = Append(@, keyword)]
    IN  [rules |-> d2, file |-> SaveRules(d2), saved |-> TRUE]

AddRuleNoSave(d, file, category, keyword) ==
    LET kw == Strip(Lower(keyword))
        d1 == IF HasKey(d, category) THEN d ELSE Append(d, [name |-> category, keywords |-> <<>>])
        i  == KeyIndex(d1, category)
    IN  IF ~InList(d1[i].keywords, kw)
        THEN [rules |-> [d1 EXCEPT ![i].keywords = Append(@, kw)], file |-> file, saved |-> FALSE]
        ELSE [rules |-> d1, file |-> file, saved |-> FALSE]

\* A plausible slip: the membership test before the append is left out.
AddRuleAlwaysAppend(d, file, category, keyword) ==
    LET kw == Strip(Lower(keyword))
        d1 == IF HasKey(d, category) THEN d ELSE Append(d, [name |-> category, keywords |-> <<>>])
        i  == KeyIndex(d1, category)
        d2 == [d1 EXCEPT ![i].keywords = Append(@, kw)]
    IN  [rules |-> d2, file |-> SaveRules(d2), saved |-> TRUE]

AddRule(d, file, category, keyword) ==
    LET kw == Strip(Lower(keyword))
        d1 == IF HasKey(d, category) THEN d ELSE Append(d, [name |-> category, keywords |-> <<>>])
        i  == KeyIndex(d1, category)
    IN  IF ~InList(d1[i].keywords, kw)
        THEN LET d2 == [d1 EXCEPT ![i].keywords = Append(@, kw)]
             IN  [rules |-> d2, file |-> SaveRules(d2), saved |-> TRUE]
        ELSE [rules |-> d1, file |-> file, saved |-> FALSE]

(***************************************************************************)
(* Matcher.                                                                *)
(***************************************************************************)
RECURSIVE AnyKeyword(_, _)
\* for keyword in keywords: if keyword.lower() in payee_lower
AnyKeyword(keywords, payee_lower) ==
    IF Len(keywords) = 0 THEN FALSE
    ELSE IF Contains(payee_lower, Lower(keywords[1])) THEN TRUE
    ELSE AnyKeyword(Tail(keywords), payee_lower)

RECURSIVE ScanRules(_, _)
ScanRules(d, payee_lower) ==
    IF Len(d) = 0 THEN None
    ELSE IF AnyKeyword(d[1].keywords, payee_lower) THEN d[1].name
    ELSE ScanRules(Tail(d), payee_lower)

\* A plausible slip: the payee is not lower-cased before the scan.
FindCategoryCaseSensitive(d, payee_name) ==
    IF Falsy(payee_name) THEN None ELSE ScanRules(d, payee_name)

FindCategoryByRules(d, payee_name) ==
    IF Falsy(payee_name) THEN None ELSE ScanRules(d, Lower(payee_name))

\* the heuristic table of suggest_category_with_ai, in its literal order
Patterns == <<
    [name |-> "Supermercado", keywords |-> <<"super", "market", "alimentacion", "comida", "grocery">>],
    [name |-> "Restaurantes y bares", keywords |-> <<"rest", "cafe", "bar", "food", "eat", "cocina", "gastro">>],
    [name |-> "Gasolina", keywords |-> <<"fuel", "gas", "petrol", "gasoil", "carburante">>],
    [name |-> "Suscripciones", keywords |-> <<"subscription", "suscripcion", "monthly", "premium", "plus">>],
    [name |-> "Salud y belleza", keywords |-> <<"health", "salud", "medic", "doctor", "clinic", "dent", "optic">>],
    [name |-> "Ropa", keywords |-> <<"fashion", "moda", "clothes", "wear", "shoes", "zapato", "textile">>],
    [name |-> "Transporte P~blico", keywords |-> <<"transport", "viaje", "travel", "ticket", "billete">>],
    [name |-> "Educaci*n y cultura", keywords |-> <<"book", "libro", "curso", "academy", "school", "university", "educa">>],
    [name |-> "Espect@culos y actividades", keywords |-> <<"cinema", "cine", "teatro", "concert", "event", "entrada", "ticket">>],
    [name |-> "Hogar", keywords |-> <<"home", "casa", "hogar", "furniture", "mueble", "ikea", "leroy">>] >>

SubscriptionWords == <<"app", "cloud", "online", "digital">>
SubscriptionLimit == 50

RECURSIVE AnyPattern(_, _)
\* for keyword in keywords: if keyword in payee_lower  (no lower() on the keyword)
AnyPattern(keywords, payee_lower) ==
    IF Len(keywords) = 0 THEN FALSE
    ELSE IF Contains(payee_lower, keywords[1]) THEN TRUE
    ELSE AnyPattern(Tail(keywords), payee_lower)

RECURSIVE ScanPatternsAnyCategory(_, _, _)
\* the table scan without the test of line 165
ScanPatternsAnyCategory(table, payee_lower, available_categories) ==
    IF Len(table) = 0 THEN None
    ELSE IF AnyPattern(table[1].keywords, payee_lower) THEN table[1].name
    ELSE ScanPatternsAnyCategory(Tail(table), payee_lower, available_categories)

RECURSIVE ScanPatterns(_, _, _)
ScanPatterns(table, payee_lower, available_categories) ==
    IF Len(table) = 0 THEN None
    ELSE IF InList(available_categories, table[1].name)
            /\ AnyPattern(table[1].keywords, payee_lower)
         THEN table[1].name
    ELSE ScanPatterns(Tail(table), payee_lower, available_categories)

\* suggest_category_with_ai with the limit of line 172 included: -50 <= amount
SuggestUpToLimit(payee_name, amount, available_categories) ==
    IF Falsy(payee_name) THEN None
    ELSE LET payee_lower == Lower(payee_name)
             byPattern   == ScanPatterns(Patterns, payee_lower, available_categories)
         IN  IF byPattern # None THEN byPattern
             ELSE IF /\ -(SubscriptionLimit * Scale) <= amount
                     /\ amount < 0
                     /\ AnyPattern(SubscriptionWords, payee_lower)
                     /\ InList(available_categories, "Suscripciones")
                  THEN "Suscripciones"
                  ELSE None

SuggestCategoryWithAI(payee_name, amount, available_categories) ==
    IF Falsy(payee_name) THEN None
    ELSE LET payee_lower == Lower(payee_name)
             byPattern   == ScanPatterns(Patterns, payee_lower, available_categories)
         IN  IF byPattern # None THEN byPattern
             ELSE IF /\ -(SubscriptionLimit * Scale) < amount
                     /\ amount < 0
                     /\ AnyPattern(SubscriptionWords, payee_lower)
                     /\ InList(available_categories, "Suscripciones")
                  THEN "Suscripciones"
                  ELSE None

(* interactive_categorize, lines 230-237: the rule pass, and the heuristic *)
(* pass only when the rule pass gave nothing.                              *)
SessionSuggest(d, payee_name, amount, category_list) ==
    LET byRules == FindCategoryByRules(d, payee_name)
    IN  IF Falsy(byRules)
        THEN [category |-> SuggestCategoryWithAI(payee_name, amount, category_list),
              source |-> "IA"]
        ELSE [category |-> byRules, source |-> "reglas"]

(***************************************************************************)
(* sorted(categories.keys()): Python orders strings by code point.         *)
(***************************************************************************)
CodePoints == " &(),-.0123456789ABCDEFGHIJKLMNOPQRSTUVWXYZabcdefghijklmnopqrstuvwxyz$%|;+_@#!^*~"

OrdMap ==
    [c \in {SubSeq(CodePoints, i, i) : i \in 1..Len(CodePoints)} |->
        CHOOSE i \in 1..Len(CodePoints) : SubSeq(CodePoints, i, i) = c]

Ord(c) == OrdMap[c]

RECURSIVE StrLess(_, _)
StrLess(a, b) ==
    IF Len(b) = 0 THEN FALSE
    ELSE IF Len(a) = 0 THEN TRUE
    ELSE LET x == Ord(SubSeq(a, 1, 1))
             y == Ord(SubSeq(b, 1, 1))
         IN  IF x # y THEN x < y
             ELSE StrLess(SubSeq(a, 2, Len(a)), SubSeq(b, 2, Len(b)))

RECURSIVE SortedNames(_)
SortedNames(S) ==
    IF S = {} THEN <<>>
    ELSE LET m == CHOOSE a \in S : \A b \in S \ {a} : StrLess(a, b)
         IN  <<m>> \o SortedNames(S \ {m})

(***************************************************************************)
(* The remote service.  remoteCategories is what GET categories returns    *)
(* (the groups flattened, in order); remote is the transaction list.       *)
(***************************************************************************)
RECURSIVE VisibleCategories(_)
\* categories[category["name"]] = category["id"] for the non-hidden ones
VisibleCategories(cs) ==
    IF Len(cs) = 0 THEN <<>>
    ELSE LET rest == VisibleCategories(SubSeq(cs, 1, Len(cs) - 1))
             c    == cs[Len(cs)]
         IN  IF c.hidden THEN rest
             ELSE IF \E i \in 1..Len(rest) : rest[i].name = c.name
                  THEN [i \in 1..Len(rest) |->
                          IF rest[i].name = c.name THEN [name |-> c.name, id |-> c.id] ELSE rest[i]]
                  ELSE Append(rest, [name |-> c.name, id |-> c.id])

NoCache == [set |-> FALSE, map |-> <<>>]

\* `if self._categories_cache:` a dict is truthy when it is set and not empty
CacheTruthy(cache) == cache.set /\ Len(cache.map) > 0

(* get_categories: the map returned and the cache afterwards; ok is FALSE  *)
(* when the request was needed and raise_for_status raised.                *)
GetCategories(cache, cs, netOk) ==
    IF CacheTruthy(cache) THEN [ok |-> TRUE, map |-> cache.map, cache |-> cache, fetched |-> FALSE]
    ELSE IF ~netOk THEN [ok |-> FALSE, map |-> <<>>, cache |-> cache, fetched |-> TRUE]
    ELSE LET m == VisibleCategories(cs)
         IN  [ok |-> TRUE, map |-> m, cache |-> [set |-> TRUE, map |-> m], fetched |-> TRUE]

CategoryNames(m) == {m[i].name : i \in 1..Len(m)}

\* A plausible slip: the suggestion is shown without the test on the map.
InCategoriesUnchecked(m, name) == TRUE

\* line 242: `suggested_category in categories`
InCategories(m, name) == name \in CategoryNames(m)
CategoryIdOf(m, name) == m[CHOOSE i \in 1..Len(m) : m[i].name = name].id

(***************************************************************************)
(* Operator input helpers: int(choice), str.split().                       *)
(***************************************************************************)
Digits == "0123456789"
IsDigit(c) == \E i \in 1..Len(Digits) : SubSeq(Digits, i, i) = c
DigitValue(c) == (CHOOSE i \in 1..Len(Digits) : SubSeq(Digits, i, i) = c) - 1

RECURSIVE DigitsValue(_, _)
DigitsValue(s, acc) ==
    IF Len(s) = 0 THEN acc
    ELSE DigitsValue(SubSeq(s, 2, Len(s)), acc * 10 + DigitValue(SubSeq(s, 1, 1)))

AllDigits(s) == Len(s) > 0 /\ \A i \in 1..Len(s) : IsDigit(SubSeq(s, i, i))

\* int(text): ok is FALSE where Python raises ValueError
ParseInt(text) ==
    LET neg  == Len(text) > 0 /\ SubSeq(text, 1, 1) = "-"
        pos  == Len(text) > 0 /\ SubSeq(text, 1, 1) = "+"
        body == IF neg \/ pos THEN SubSeq(text, 2, Len(text)) ELSE text
    IN  IF AllDigits(body)
        THEN [ok |-> TRUE, value |-> IF neg THEN -DigitsValue(body, 0) ELSE DigitsValue(body, 0)]
        ELSE [ok |-> FALSE, value |-> 0]

RECURSIVE SplitFrom(_, _)
\* str.split(): the maximal runs of non-whitespace; word is the run being read
SplitFrom(s, word) ==
    IF Len(s) = 0 THEN (IF word = "" THEN <<>> ELSE <<word>>)
    ELSE LET c == SubSeq(s, 1, 1)
             rest == SubSeq(s, 2, Len(s))
         IN  IF IsSpace(c)
             THEN (IF word = "" THEN <<>> ELSE <<word>>) \o SplitFrom(rest, "")
             ELSE SplitFrom(rest, word \o c)

Split(s) == SplitFrom(s, "")

\* _select_category without the range test of line 322: an index below one
\* counts from the end of the list, as list[idx] does
SelectCategoryUnchecked(category_list, typed) ==
    LET choice == Strip(typed)
        n      == ParseInt(choice)
        idx    == n.value - 1
    IN  IF choice = "" \/ ~n.ok THEN None
        ELSE IF idx >= Len(category_list) \/ idx < -Len(category_list) THEN None
        ELSE category_list[(idx % Len(category_list)) + 1]

\* _select_category: the category chosen by the typed text, or None
SelectCategoryFrom(category_list, typed) ==
    LET choice == Strip(typed)
    IN  IF choice = "" THEN None
        ELSE LET n == ParseInt(choice)
             IN  IF ~n.ok THEN None
                 ELSE LET idx == n.value - 1
                      IN  IF 0 <= idx /\ idx < Len(category_list)
                          THEN category_list[idx + 1]
                          ELSE None

StopWords == {"de", "la", "el", "los", "las", "del", "al", "en", "por", "para",
              "con", "sin", "sobre", "transfer", "pago", "compra", "recibo",
              "s.l.", "s.a.", "sl", "sa", "slu", "n=", "num", "ref"}

\* significant_words = [w for w in words if w not in stop_words and len(w) > 2]
SignificantWords(payee_name) ==
    SelectSeq(Split(Lower(payee_name)), LAMBDA w : w \notin StopWords /\ Len(w) > 2)

\* _extract_keyword once the operator has typed: the keyword, or None
ExtractKeyword(payee_name, typed) ==
    LET significant_words == SignificantWords(payee_name)
        custom == Strip(typed)
    IN  IF Len(significant_words) > 0
        THEN (IF custom # "" THEN custom ELSE significant_words[1])
        ELSE (IF custom # "" THEN custom ELSE None)

\* get_uncategorized_transactions: the filter of lines 121-126
IsUncategorized(t) ==
    /\ t.category_id = None
    /\ ~t.deleted
    /\ ~(t.transfer_account_id # None)

\* the filter of lines 120-125 without its test of the deleted flag
KeepsDeleted(t) == t.category_id = None /\ t.transfer_account_id = None
GetUncategorizedKeepingDeleted(transactions) == SelectSeq(transactions, KeepsDeleted)

\* the filtered list handed over last entry first
GetUncategorizedReversed(transactions) ==
    LET l == SelectSeq(transactions, IsUncategorized)
    IN  [i \in 1..Len(l) |-> l[Len(l) + 1 - i]]

GetUncategorizedTransactions(transactions) == SelectSeq(transactions, IsUncategorized)

\* update_transaction_category returns response.status_code == 200
UpdateSucceeded(status_code) == status_code = 200

\* the PATCH requests one call of update_transaction_category issues (line 199);
\* a retrying variant would issue a second one after a failure
RecordUpdateRetrying(history, id, outcome) ==
    [history EXCEPT ![id] = @ + (IF ~outcome.raised /\ outcome.status_code = 200 THEN 1 ELSE 2)]

RecordUpdate(history, id, outcome) == [history EXCEPT ![id] = @ + 1]

\* choice = input(...).strip().lower(), then the if/elif chain of lines 244-251
AcceptChoiceQuitIgnored(typed) ==
    LET choice == Lower(Strip(typed))
    IN  IF choice = "s" THEN "skip" ELSE IF choice = "" THEN "accept" ELSE "other"

AcceptChoice(typed) ==
    LET choice == Lower(Strip(typed))
    IN  IF choice = "q" THEN "quit"
        ELSE IF choice = "s" THEN "skip"
        ELSE IF choice = "n" \/ choice # "" THEN "other"
        ELSE "accept"

\* the manual prompt, lines 277-300
ManualChoice(typed) ==
    LET choice == Lower(Strip(typed))
    IN  IF choice = "q" THEN "quit" ELSE IF choice = "s" THEN "select" ELSE "skip"

(***************************************************************************)
(* Python floats.  get_monthly_budget divides the service's integer        *)
(* thousandths by 1000 (lines 100-103), so the budget figures are IEEE-754 *)
(* doubles, and the 20% test multiplies one of them by the literal 0.2.    *)
(* A double is modelled exactly: a sign, a 53-bit significand m and an     *)
(* exponent e, value m * 2^e, every operation rounded to nearest, ties to  *)
(* even.  Significands and intermediate results are naturals held as       *)
(* little-endian sequences of limbs.                                       *)
(***************************************************************************)
Limb == 2^14

RECURSIVE BigNorm(_)
BigNorm(x) ==
    IF x = <<>> THEN x
    ELSE IF x[Len(x)] = 0 THEN BigNorm(SubSeq(x, 1, Len(x) - 1)) ELSE x

RECURSIVE BigOfInt(_)
BigOfInt(n) == IF n = 0 THEN <<>> ELSE <<n % Limb>> \o BigOfInt(n \div Limb)

RECURSIVE BigMulSmall(_, _, _)
BigMulSmall(x, k, carry) ==
    IF x = <<>> THEN BigOfInt(carry)
    ELSE LET v == x[1] * k + carry
         IN  <<v % Limb>> \o BigMulSmall(Tail(x), k, v \div Limb)

RECURSIVE BigAdd(_, _, _)
BigAdd(x, y, carry) ==
    IF x = <<>> /\ y = <<>> THEN BigOfInt(carry)
    ELSE LET a == IF x = <<>> THEN 0 ELSE x[1]
             b == IF y = <<>> THEN 0 ELSE y[1]
             v == a + b + carry
         IN  <<v % Limb>> \o BigAdd(IF x = <<>> THEN x ELSE Tail(x),
                                    IF y = <<>> THEN y ELSE Tail(y),
                                    v \div Limb)

RECURSIVE BigMul(_, _)
BigMul(x, y) ==
    IF x = <<>> \/ y = <<>> THEN <<>>
    ELSE LET rest == BigMul(x, Tail(y))
         IN  BigNorm(BigAdd(BigMulSmall(x, y[1], 0),
                            IF rest = <<>> THEN rest ELSE <<0>> \o rest, 0))

\* the quotient and the remainder of x by a divisor of at most one limb
RECURSIVE BigDivStep(_, _, _, _, _)
BigDivStep(x, d, i, rem, acc) ==
    IF i = 0 THEN [q |-> BigNorm(acc), r |-> rem]
    ELSE LET v == rem * Limb + x[i]
         IN  BigDivStep(x, d, i - 1, v % d, <<v \div d>> \o acc)

BigDivSmall(x, d) == BigDivStep(x, d, Len(x), 0, <<>>)

RECURSIVE BigCmpFrom(_, _, _)
BigCmpFrom(x, y, i) ==
    IF i = 0 THEN 0
    ELSE IF x[i] < y[i] THEN -1
    ELSE IF x[i] > y[i] THEN 1
    ELSE BigCmpFrom(x, y, i - 1)

BigCmp(x, y) ==
    IF Len(x) < Len(y) THEN -1
    ELSE IF Len(x) > Len(y) THEN 1
    ELSE BigCmpFrom(x, y, Len(x))

RECURSIVE BitLenSmall(_)
BitLenSmall(n) == IF n = 0 THEN 0 ELSE 1 + BitLenSmall(n \div 2)

BigBitLen(x) ==
    IF x = <<>> THEN 0 ELSE 14 * (Len(x) - 1) + BitLenSmall(x[Len(x)])

BigShl(x, n) ==
    IF x = <<>> THEN x
    ELSE [i \in 1..(n \div 14) |-> 0] \o BigMulSmall(x, 2^(n % 14), 0)

\* x = q * 2^n + r
BigShr(x, n) ==
    LET k == n \div 14
    IN  IF Len(x) <= k THEN [q |-> <<>>, r |-> x]
        ELSE LET dv == BigDivSmall(SubSeq(x, k + 1, Len(x)), 2^(n % 14))
             IN  [q |-> dv.q, r |-> BigNorm(SubSeq(x, 1, k) \o <<dv.r>>)]

FZero == [neg |-> FALSE, m |-> <<>>, e |-> 0]

\* the double nearest to M * 2^E, ties to even; sticky says that the exact
\* value lies strictly above M * 2^E
FRound(neg, M, E, sticky) ==
    IF M = <<>> THEN FZero
    ELSE LET L == BigBitLen(M)
         IN  IF L <= 53
             THEN [neg |-> neg, m |-> BigShl(M, 53 - L), e |-> E - (53 - L)]
             ELSE LET d    == L - 53
                      s    == BigShr(M, d)
                      c    == BigCmp(s.r, BigShl(<<1>>, d - 1))
                      up   == c = 1 \/ (c = 0 /\ (sticky \/ s.q[1] % 2 = 1))
                      q    == IF up THEN BigAdd(s.q, <<1>>, 0) ELSE s.q
                  IN  IF BigBitLen(q) > 53
                      THEN [neg |-> neg, m |-> BigShr(q, 1).q, e |-> E + d + 1]
                      ELSE [neg |-> neg, m |-> q, e |-> E + d]

\* n / d for an int n and a small positive d: true division, and the value of
\* a decimal literal
FloatOfRatio(n, d) ==
    LET a  == IF n < 0 THEN -n ELSE n
        dv == BigDivSmall(BigShl(BigOfInt(a), 70), d)
    IN  FRound(n < 0, dv.q, -70, dv.r # 0)

FloatOfInt(n) == FloatOfRatio(n, 1)

FMul(a, b) ==
    IF a.m = <<>> \/ b.m = <<>> THEN FZero
    ELSE FRound(a.neg # b.neg, BigMul(a.m, b.m), a.e + b.e, FALSE)

FSign(a) == IF a.m = <<>> THEN 0 ELSE IF a.neg THEN -1 ELSE 1

FMagCmp(a, b) ==
    IF a.e < b.e THEN -1 ELSE IF a.e > b.e THEN 1 ELSE BigCmp(a.m, b.m)

FCmp(a, b) ==
    IF FSign(a) # FSign(b) THEN (IF FSign(a) < FSign(b) THEN -1 ELSE 1)
    ELSE IF FSign(a) = 0 THEN 0
    ELSE FSign(a) * FMagCmp(a, b)

FLess(a, b) == FCmp(a, b) = -1

(***************************************************************************)
(* The budget comparison.  A dict is a sequence of [name, value] entries   *)
(* in insertion order.                                                     *)
(***************************************************************************)
RECURSIVE DictPut(_, _, _)
DictPut(d, name, value) ==
    IF d = <<>> THEN <<[name |-> name, value |-> value]>>
    ELSE IF d[1].name = name THEN <<[name |-> name, value |-> value]>> \o Tail(d)
    ELSE <<d[1]>> \o DictPut(Tail(d), name, value)

\* get_monthly_budget, lines 98-107: thousandths to floats
RECURSIVE GetMonthlyBudget(_)
GetMonthlyBudget(month_categories) ==
    IF month_categories = <<>> THEN <<>>
    ELSE LET n        == Len(month_categories)
             category == month_categories[n]
         IN  DictPut(GetMonthlyBudget(SubSeq(month_categories, 1, n - 1)),
                     category.name,
                     [id       |-> category.id,
                      budgeted |-> FloatOfRatio(category.budgeted, Scale),
                      activity |-> FloatOfRatio(category.activity, Scale),
                      balance  |-> FloatOfRatio(category.balance, Scale)])

PseudoCategories == {"Inflow: Ready to Assign", "Sin categor!a"}

\* lines 649 and 859: the budget lines that get a row
\* the filter of lines 649 and 859 without its list of excluded names
HasBudgetRowAnyName(cat, b) ==
    b.activity # FZero \/ FLess(FZero, b.budgeted)

HasBudgetRow(cat, b) ==
    /\ b.activity # FZero \/ FLess(FZero, b.budgeted)
    /\ cat \notin PseudoCategories

\* list.sort(key=activity): stable, ascending
RECURSIVE InsertByActivity(_, _)
InsertByActivity(sorted, row) ==
    IF sorted = <<>> THEN <<row>>
    ELSE IF FLess(row.activity, sorted[1].activity) THEN <<row>> \o sorted
    ELSE <<sorted[1]>> \o InsertByActivity(Tail(sorted), row)

RECURSIVE SortByActivity(_)
SortByActivity(rows) ==
    IF rows = <<>> THEN rows
    ELSE InsertByActivity(SortByActivity(SubSeq(rows, 1, Len(rows) - 1)),
                          rows[Len(rows)])

\* line 865
BudgetStatus(b) ==
    IF FLess(b.balance, FZero) THEN "over"
    ELSE IF FLess(FZero, b.budgeted)
            /\ FLess(b.balance, FMul(b.budgeted, FloatOfRatio(2, 10)))
         THEN "low"
         ELSE "ok"

\* lines 658-672
StatusText(b) ==
    IF FLess(b.balance, FZero) THEN "Excedido"
    ELSE IF FLess(FZero, b.budgeted)
            /\ FLess(b.balance, FMul(b.budgeted, FloatOfRatio(2, 10)))
         THEN "Bajo"
         ELSE "OK"

\* generate_html_report, lines 855-868
HtmlBudgetData(budget) ==
    LET kept == SelectSeq(budget, LAMBDA x : HasBudgetRow(x.name, x.value))
    IN  SortByActivity([i \in 1..Len(kept) |->
            [category  |-> kept[i].name,
             budgeted  |-> kept[i].value.budgeted,
             activity  |-> kept[i].value.activity,
             available |-> kept[i].value.balance,
             status    |-> BudgetStatus(kept[i].value)]])

\* _generate_email_html, lines 646-672: the figures and the status of a row
EmailBudgetRows(budget) ==
    LET kept   == SelectSeq(budget, LAMBDA x : HasBudgetRow(x.name, x.value))
        sorted == SortByActivity([i \in 1..Len(kept) |->
                      [category |-> kept[i].name,
                       activity |-> kept[i].value.activity,
                       b        |-> kept[i].value]])
    IN  [i \in 1..Len(sorted) |->
            [category    |-> sorted[i].category,
             budgeted    |-> sorted[i].b.budgeted,
             activity    |-> sorted[i].b.activity,
             available   |-> sorted[i].b.balance,
             status_text |-> StatusText(sorted[i].b)]]

(***************************************************************************)
(* The report aggregator, get_report_data.  A day is its ordinal in 2026,  *)
(* the year of the dates the model draws; strftime("%Y-%m-%d") and the     *)
(* string comparison of dates are modelled on the text.  Amounts are kept  *)
(* in exact thousandths.                                                   *)
(***************************************************************************)
MonthDays == <<31, 28, 31, 30, 31, 30, 31, 31, 30, 31, 30, 31>>

RECURSIVE MonthAndDay(_, _)
MonthAndDay(n, m) ==
    IF n <= MonthDays[m] THEN [month |-> m, day |-> n]
    ELSE MonthAndDay(n - MonthDays[m], m + 1)

Pad2(k) == IF k < 10 THEN "0" \o ToString(k) ELSE ToString(k)

Strftime(n) ==
    LET md == MonthAndDay(n, 1)
    IN  "2026-" \o Pad2(md.month) \o "-" \o Pad2(md.day)

\* datetime.weekday(): 0 is Monday; 1 January 2026 is a Thursday
Weekday(n) == (n + 2) % 7

\* lines 357-365
StartDate(period, n) ==
    IF period = "week" THEN n - Weekday(n)
    ELSE n - MonthAndDay(n, 1).day + 1

StrLeq(a, b) == a = b \/ StrLess(a, b)

\* the date filter without its upper end
InWindowNoEnd(date, start_str, end_str) == StrLeq(start_str, date)

\* line 382
InWindow(date, start_str, end_str) ==
    StrLeq(start_str, date) /\ StrLeq(date, end_str)

\* a skip test that looks at the deleted flag only
SkippedDeletedOnly(t) == t.deleted

\* line 392: `if t.get("deleted") or t.get("transfer_account_id")`
Skipped(t) == t.deleted \/ ~Falsy(t.transfer_account_id)

DictHas(d, name) == \E i \in 1..Len(d) : d[i].name = name

DictGet(d, name, default) ==
    IF DictHas(d, name)
    THEN d[CHOOSE i \in 1..Len(d) : d[i].name = name].value
    ELSE default

\* category_names = {cid: name for name, cid in categories.items()}, then
\* category_names.get(category_id, "Sin categoría")
CategoryNameOf(categories_map, category_id) ==
    LET hits == {i \in 1..Len(categories_map) : categories_map[i].id = category_id}
    IN  IF hits = {} THEN "Sin categor!a"
        ELSE categories_map[CHOOSE i \in hits : \A j \in hits : j <= i].name

Abs(x) == IF x < 0 THEN -x ELSE x

\* A plausible slip: `amount <= 0` sends a zero amount to the expenses.
AccumulateZeroAsExpense(acc, t, categories_map) ==
    IF Skipped(t) THEN acc
    ELSE LET amount        == t.amount
             category_name == CategoryNameOf(categories_map, t.category_id)
             tx_detail     == [date |-> t.date, payee |-> t.payee_name,
                               memo |-> "", amount |-> amount, account |-> ""]
             withDetail    ==
                 [acc EXCEPT !.transactions_by_category =
                     DictPut(@, category_name,
                             Append(DictGet(@, category_name, <<>>), tx_detail))]
         IN  IF amount <= 0
             THEN [withDetail EXCEPT
                     !.expenses_by_category =
                         DictPut(@, category_name,
                                 DictGet(@, category_name, 0) + Abs(amount)),
                     !.total_expenses = @ + Abs(amount)]
             ELSE [withDetail EXCEPT
                     !.income_by_category =
                         DictPut(@, category_name,
                                 DictGet(@, category_name, 0) + amount),
                     !.total_income = @ + amount]

\* the body of the loop, lines 391-416
Accumulate(acc, t, categories_map) ==
    IF Skipped(t) THEN acc
    ELSE LET amount        == t.amount
             category_name == CategoryNameOf(categories_map, t.category_id)
             tx_detail     == [date |-> t.date, payee |-> t.payee_name,
                               memo |-> "", amount |-> amount, account |-> ""]
             withDetail    ==
                 [acc EXCEPT !.transactions_by_category =
                     DictPut(@, category_name,
                             Append(DictGet(@, category_name, <<>>), tx_detail))]
         IN  IF amount < 0
             THEN [withDetail EXCEPT
                     !.expenses_by_category =
                         DictPut(@, category_name,
                                 DictGet(@, category_name, 0) + Abs(amount)),
                     !.total_expenses = @ + Abs(amount)]
             ELSE [withDetail EXCEPT
                     !.income_by_category =
                         DictPut(@, category_name,
                                 DictGet(@, category_name, 0) + amount),
                     !.total_income = @ + amount]

RECURSIVE AccumulateAll(_, _, _)
AccumulateAll(acc, transactions, categories_map) ==
    IF transactions = <<>> THEN acc
    ELSE AccumulateAll(Accumulate(acc, transactions[1], categories_map),
                       Tail(transactions), categories_map)

\* A plausible slip: a later item goes before the items of equal value.
RECURSIVE InsertBeforeEqual(_, _)
InsertBeforeEqual(sorted, item) ==
    IF sorted = <<>> THEN <<item>>
    ELSE IF sorted[1].value <= item.value THEN <<item>> \o sorted
    ELSE <<sorted[1]>> \o InsertBeforeEqual(Tail(sorted), item)

\* sorted(items, key=value, reverse=True): stable, largest first
RECURSIVE InsertByValueDesc(_, _)
InsertByValueDesc(sorted, item) ==
    IF sorted = <<>> THEN <<item>>
    ELSE IF sorted[1].value < item.value THEN <<item>> \o sorted
    ELSE <<sorted[1]>> \o InsertByValueDesc(Tail(sorted), item)

RECURSIVE SortByValueDesc(_)
SortByValueDesc(items) ==
    IF items = <<>> THEN items
    ELSE InsertByValueDesc(SortByValueDesc(SubSeq(items, 1, Len(items) - 1)),
                           items[Len(items)])

\* get_report_data once both requests have answered, lines 355-427
ReportData(period, day, all_transactions, categories_map) ==
    LET start_str    == Strftime(StartDate(period, day))
        end_str      == Strftime(day)
        transactions == SelectSeq(all_transactions,
                            LAMBDA t : InWindow(t.date, start_str, end_str))
        acc == AccumulateAll([expenses_by_category     |-> <<>>,
                              income_by_category       |-> <<>>,
                              transactions_by_category |-> <<>>,
                              total_expenses           |-> 0,
                              total_income             |-> 0],
                             transactions, categories_map)
    IN  [status                   |-> "ok",
         period                   |-> start_str \o " - " \o end_str,
         total_income             |-> acc.total_income,
         total_expenses           |-> acc.total_expenses,
         net                      |-> acc.total_income - acc.total_expenses,
         expenses_by_category     |-> SortByValueDesc(acc.expenses_by_category),
         income_by_category       |-> SortByValueDesc(acc.income_by_category),
         transactions_by_category |-> acc.transactions_by_category,
         transaction_count        |->
             Len(SelectSeq(transactions,
                           LAMBDA t : ~t.deleted /\ Falsy(t.transfer_account_id)))]

\* generate_html_report, lines 846-849: the monthly details of a category
\* whose (date, amount) is not among those of the list built so far; the
\* set `existing` is computed once, before the loop
RECURSIVE AppendUnseen(_, _, _)
AppendUnseen(list, txs, existing) ==
    IF txs = <<>> THEN list
    ELSE AppendUnseen(IF <<txs[1].date, txs[1].amount>> \in existing
                      THEN list ELSE Append(list, txs[1]),
                      Tail(txs), existing)

\* A plausible slip: every detail appended is added to `existing` as well,
\* which drops the second of two monthly details of equal date and amount.
RECURSIVE MergeCategoryDistinct(_, _)
MergeCategoryDistinct(list, txs) ==
    IF txs = <<>> THEN list
    ELSE MergeCategoryDistinct(
             IF \E k \in 1..Len(list) :
                    list[k].date = txs[1].date /\ list[k].amount = txs[1].amount
             THEN list ELSE Append(list, txs[1]),
             Tail(txs))

\* lines 845-849
MergeCategory(list, txs) ==
    AppendUnseen(list, txs,
                 {<<list[k].date, list[k].amount>> : k \in 1..Len(list)})

\* lines 841-849: the monthly categories merged into the weekly ones
RECURSIVE MergeInto(_, _)
MergeInto(all_transactions, monthly_items) ==
    IF monthly_items = <<>> THEN all_transactions
    ELSE LET cat == monthly_items[1].name
             txs == monthly_items[1].value
         IN  MergeInto(IF ~DictHas(all_transactions, cat)
                       THEN DictPut(all_transactions, cat, txs)
                       ELSE DictPut(all_transactions, cat,
                                    MergeCategory(DictGet(all_transactions, cat, <<>>),
                                                  txs)),
                       Tail(monthly_items))

\* list.sort(key=date, reverse=True): stable, latest first
RECURSIVE InsertByDateDesc(_, _)
InsertByDateDesc(sorted, item) ==
    IF sorted = <<>> THEN <<item>>
    ELSE IF StrLess(sorted[1].date, item.date) THEN <<item>> \o sorted
    ELSE <<sorted[1]>> \o InsertByDateDesc(Tail(sorted), item)

RECURSIVE SortByDateDesc(_)
SortByDateDesc(items) ==
    IF items = <<>> THEN items
    ELSE InsertByDateDesc(SortByDateDesc(SubSeq(items, 1, Len(items) - 1)),
                          items[Len(items)])

\* generate_html_report, lines 837-853: all_transactions
MergeDetails(weekly, monthly) ==
    LET merged == MergeInto(weekly.transactions_by_category,
                            monthly.transactions_by_category)
    IN  [i \in 1..Len(merged) |->
            [name |-> merged[i].name, value |-> SortByDateDesc(merged[i].value)]]

\* print_report, lines 457-464: the mark at the end of a budget line (the
\* coloured circles are written (o), (r), (y), (g))
PrintStatus(b) ==
    IF b.budgeted = FZero THEN "(o)"
    ELSE IF FLess(b.balance, FZero) THEN "(r) Excedido"
    ELSE IF FLess(b.balance, FMul(b.budgeted, FloatOfRatio(2, 10)))
         THEN "(y) Bajo"
         ELSE "(g) OK"

\* print_report, lines 451-467: the expense lines printed with the budget
\* columns, one per expense category of the report that the budget names;
\* the other categories get a percentage and no mark
PrintBudgetRows(printed, budget) ==
    LET expenses == printed.expenses_by_category
        kept == SelectSeq(expenses, LAMBDA x : budget # <<>> /\ DictHas(budget, x.name))
    IN  [i \in 1..Len(kept) |->
            [category    |-> kept[i].name,
             budgeted    |-> DictGet(budget, kept[i].name, FZero).budgeted,
             activity    |-> kept[i].value,
             available   |-> DictGet(budget, kept[i].name, FZero).balance,
             status_text |-> PrintStatus(DictGet(budget, kept[i].name, FZero))]]

(***************************************************************************)
(* State.                                                                  *)
(***************************************************************************)
VARIABLES
    rules,               \* self.categorization_rules
    ruleFile,            \* categorization_rules.json
    categories_cache,    \* self._categories_cache
    remoteCategories,    \* the service's categories
    remote,              \* the service's transactions
    pc,                  \* position of interactive_categorize
    uncategorized,       \* the fetched list
    categories,          \* the session's local: name -> id
    category_list,       \* the session's local: sorted(categories.keys())
    cur,                 \* the loop index i (1-based)
    stats,               \* {"total", "categorized", "skipped"}
    suggested_category,
    suggestion_source,
    calls,               \* history: PATCH requests issued, per transaction id
    prompted,            \* history: loop indices for which input was read
    quitAt,              \* history: loop index at which quit was typed, or 0
    lastUpdate,          \* history: the last update call: loop index, status, id sent
    lastOp,              \* history: the last operation on the rule store
    today,               \* datetime.now(), as the day of the year 2026
    report,              \* what get_report_data returned
    remoteMonth,         \* the service's budget month: lines in thousandths
    monthly_budget,      \* what get_monthly_budget returned
    budget_data,         \* the budget rows built for a report
    command,             \* the report or e-mail command last run, and how it ended
    categoryFetch,       \* history: the category requests issued so far
    selected             \* history: the answer to the category list given
                         \* since the last first prompt of a transaction

sessionVars == <<pc, uncategorized, categories, category_list, cur, stats, suggested_category, suggestion_source,
                 calls, prompted, quitAt, lastUpdate, selected>>
storeVars == <<rules, ruleFile, lastOp>>
serviceVars == <<remoteCategories, remote, categories_cache, categoryFetch>>
reportVars == <<today, report, remoteMonth, monthly_budget, budget_data, command>>
vars == <<rules, ruleFile, categories_cache, remoteCategories, remote, pc, uncategorized,
          categories, category_list, cur, stats, suggested_category, suggestion_source,
          calls, prompted, quitAt,
          lastUpdate, lastOp, today, report, remoteMonth, monthly_budget,
          budget_data, command, categoryFetch, selected>>

(***************************************************************************)
(* Bounds and input pools.                                                 *)
(***************************************************************************)
MaxTx == 2

TxId(i) == "tx-" \o ToString(i)

Tx(payee, amount, category, deleted, transfer) ==
    [id |-> "", date |-> "2026-11-03", payee_name |-> payee, amount |-> amount,
     category_id |-> category, deleted |-> deleted, transfer_account_id |-> transfer]

\* a transaction of the given date
ReportTx(date, payee, amount, category, deleted, transfer) ==
    [Tx(payee, amount, category, deleted, transfer) EXCEPT !.date = date]

\* transactions a session may be given: a rule match in capitals, a payee the
\* rules and the heuristic table classify differently, a heuristic-only match,
\* a payee without text, and a deleted entry
SessionTxPool == {
    Tx("MERCADONA MADRID", -45000, None, FALSE, None),
    Tx("Super Bar", -12000, None, FALSE, None),
    Tx("Fuel Station", -30000, None, FALSE, None),
    Tx(None, -5000, None, FALSE, None),
    Tx("Zara", -20000, None, TRUE, None) }

WithIds(l) == [i \in 1..Len(l) |-> [l[i] EXCEPT !.id = TxId(i)]]

SeqsUpTo(S, n) == UNION {[1..k -> S] : k \in 0..n}

ServiceCategories == <<
    [name |-> "Supermercado", id |-> "cat-super", hidden |-> FALSE],
    [name |-> "Restaurantes y bares", id |-> "cat-rest", hidden |-> FALSE],
    [name |-> "Gasolina", id |-> "cat-gas", hidden |-> FALSE],
    [name |-> "Ropa", id |-> "cat-ropa", hidden |-> TRUE] >>

\* rule files found at start-up: none, one that does not parse, a custom one
CustomRules == <<
    [name |-> "Ropa", keywords |-> <<"station">>],
    [name |-> "Gasolina", keywords |-> <<"bar">>],
    [name |-> "Supermercado", keywords |-> <<"mercadona", "Super">>] >>

BrokenFile == [exists |-> TRUE, tokens |-> <<"{", Quote("Supermercado"), ":">>]

SessionFiles == {NoFile, SaveRules(CustomRules)}

AcceptInputs == {"", "n", "s", " Q ", "x"}
ManualInputs == {"", "s", "q"}
SelectInputs == {"", "abc", "0", "-1", "1", "3", "9"}
SaveInputs == {"s", ""}
KeywordInputs == {"", " Gas "}
\* requests.patch answers with a status code, or raises on a network error
UpdateOutcomes == {[raised |-> FALSE, status_code |-> 200],
                   [raised |-> FALSE, status_code |-> 400],
                   [raised |-> TRUE, status_code |-> 0]}

\* the category list not shown yet
NoSelection == [idx |-> 0, category |-> None, manual |-> FALSE]

NoUpdate == [idx |-> 0, outcome |-> [raised |-> FALSE, status_code |-> 0],
             category_id |-> None]
NoOp == [op |-> "none", prev |-> <<"none", "", "">>, category |-> "", keyword |-> "",
         saved |-> FALSE]

\* the operation lastOp records, as the next record's prev
Signature(o) == <<o.op, o.category, o.keyword>>

InitStore(files) ==
    /\ ruleFile \in files
    /\ rules = LoadRules(ruleFile)
    /\ lastOp = NoOp

NoReport == [status |-> "none"]
Raised == [status |-> "raised"]

\* no command run yet; budget_failed and raised tell how the fetches went,
\* generated and delivered what the command went on to do
NoCommand == [name |-> "none", budget_failed |-> FALSE, raised |-> FALSE,
              generated |-> FALSE, delivered |-> FALSE,
              weekly |-> NoReport, monthly |-> NoReport, details |-> <<>>]

\* no category request issued yet
NoFetch == [succeeded |-> FALSE, again |-> FALSE]

\* the history after one call of get_categories: again is set by a request
\* issued once an earlier request has succeeded
NoteFetch(h, got) ==
    IF got.fetched
    THEN [succeeded |-> h.succeeded \/ got.ok, again |-> h.again \/ h.succeeded]
    ELSE h
NoRows == [view |-> "none", rows |-> <<>>]

InitReporting ==
    /\ report = NoReport
    /\ monthly_budget = <<>>
    /\ budget_data = NoRows
    /\ command = NoCommand

InitSession ==
    /\ pc = "start"
    /\ uncategorized = <<>>
    /\ categories = <<>>
    /\ category_list = <<>>
    /\ cur = 0
    /\ stats = [total |-> 0, categorized |-> 0, skipped |-> 0]
    /\ suggested_category = None
    /\ suggestion_source = ""
    /\ prompted = {}
    /\ quitAt = 0
    /\ lastUpdate = NoUpdate
    /\ selected = NoSelection

Init ==
    /\ InitStore(SessionFiles)
    /\ categories_cache = NoCache
    /\ categoryFetch = NoFetch
    /\ remoteCategories = ServiceCategories
    /\ remote \in {WithIds(l) : l \in SeqsUpTo(SessionTxPool, MaxTx)}
    /\ calls = [id \in {remote[i].id : i \in 1..Len(remote)} |-> 0]
    /\ InitSession
    /\ today = 308
    /\ remoteMonth = <<>>
    /\ InitReporting

(***************************************************************************)
(* interactive_categorize.  The method blocks on input(); each action is   *)
(* the code run from one input to the next.                                *)
(***************************************************************************)
\* the top of loop iteration k under rule set rs: lines 222-242 and 275-277,
\* up to the input() it blocks on; past the last transaction the method returns
Present(k, rs, list) ==
    IF k > Len(list)
    THEN /\ pc' = "done"
         /\ cur' = k
         /\ UNCHANGED <<suggested_category, suggestion_source, prompted>>
    ELSE LET t == list[k]
             s == SessionSuggest(rs, t.payee_name, t.amount, category_list')
         IN  /\ cur' = k
             /\ suggested_category' = s.category
             /\ suggestion_source' = s.source
             /\ prompted' = prompted \cup {k}
             /\ pc' = IF ~Falsy(s.category) /\ InCategories(categories', s.category)
                      THEN "ask_accept" ELSE "ask_manual"

StartSession(catsOk, txOk) ==
    /\ pc = "start"
    /\ UNCHANGED reportVars
    /\ LET got == GetCategories(categories_cache, remoteCategories, catsOk)
       IN  /\ categories_cache' = got.cache
           /\ categoryFetch' = NoteFetch(categoryFetch, got)
           /\ categories' = got.map
           /\ category_list' = SortedNames(CategoryNames(got.map))
           /\ IF ~got.ok \/ ~txOk
              THEN /\ pc' = "raised"
                   /\ UNCHANGED <<uncategorized, cur, stats, suggested_category,
                                  suggestion_source, prompted>>
              ELSE LET list == GetUncategorizedTransactions(remote)
                   IN  /\ uncategorized' = list
                       /\ IF Len(list) = 0
                          THEN /\ pc' = "done"
                               /\ stats' = [total |-> 0, categorized |-> 0, skipped |-> 0]
                               /\ UNCHANGED <<cur, suggested_category, suggestion_source,
                                              prompted>>
                          ELSE /\ stats' = [total |-> Len(list), categorized |-> 0,
                                            skipped |-> 0]
                               /\ Present(1, rules, list)
    /\ UNCHANGED <<rules, ruleFile, lastOp, remoteCategories, remote, calls, quitAt,
                   lastUpdate, selected>>

\* A plausible slip: a skipping branch that leaves stats["skipped"] alone.
SkipUncounted ==
    /\ stats' = stats
    /\ Present(cur + 1, rules, uncategorized)
    /\ UNCHANGED <<rules, ruleFile, lastOp, remote, calls, lastUpdate>>

\* lines 253-258: stats["skipped"] += 1, then the next iteration
Skip ==
    /\ stats' = [stats EXCEPT !.skipped = @ + 1]
    /\ Present(cur + 1, rules, uncategorized)
    /\ UNCHANGED <<rules, ruleFile, lastOp, remote, calls, lastUpdate>>

Quit ==
    /\ pc' = "done"
    /\ UNCHANGED <<rules, ruleFile, lastOp, remote, calls, lastUpdate, stats, cur,
                   suggested_category, suggestion_source, prompted>>

\* a session that offers a rule after every successful update
AsksToSaveAlways(manual, source) == TRUE

\* the save-rule prompt follows a successful update when the suggestion came
\* from the heuristic pass (line 265) and, unconditionally, in the manual
\* branch (line 290)
AsksToSave(manual, source) == manual \/ source = "IA"

\* lines 261-274 (manual = FALSE) and 285-296 (manual = TRUE): the update call
\* and what follows it up to the next input()
Apply(category, outcome, manual) ==
    LET t == uncategorized[cur]
    IN  /\ calls' = RecordUpdate(calls, t.id, outcome)
        /\ lastUpdate' = [idx |-> cur, outcome |-> outcome,
                          category_id |-> CategoryIdOf(categories, category)]
        /\ UNCHANGED <<rules, ruleFile, lastOp>>
        /\ IF outcome.raised
           THEN /\ pc' = "raised"
                /\ UNCHANGED <<remote, stats, cur, suggested_category, suggestion_source,
                               prompted>>
           ELSE IF UpdateSucceeded(outcome.status_code)
           THEN /\ remote' = [i \in 1..Len(remote) |->
                                IF remote[i].id = t.id
                                THEN [remote[i] EXCEPT !.category_id =
                                         CategoryIdOf(categories, category)]
                                ELSE remote[i]]
                /\ stats' = [stats EXCEPT !.categorized = @ + 1]
                /\ IF AsksToSave(manual, suggestion_source)
                   THEN /\ pc' = "ask_save"
                        /\ suggested_category' = category
                        /\ UNCHANGED <<cur, suggestion_source, prompted>>
                   ELSE Present(cur + 1, rules, uncategorized)
           ELSE /\ UNCHANGED <<remote, stats>>
                /\ Present(cur + 1, rules, uncategorized)

\* history only: the operator typed quit at the first prompt of transaction cur
TypedQuit(typed) == Lower(Strip(typed)) = "q"

AnswerAccept(typed, outcome) ==
    /\ pc = "ask_accept"
    /\ UNCHANGED reportVars
    /\ quitAt' = IF TypedQuit(typed) THEN cur ELSE quitAt
    /\ selected' = NoSelection
    /\ UNCHANGED <<categories_cache, categoryFetch, remoteCategories, uncategorized, categories, category_list>>
    /\ LET kind == AcceptChoice(typed)
       IN  CASE kind = "quit" -> Quit
             [] kind = "skip" -> Skip
             [] kind = "other" ->
                    /\ pc' = "select_suggest"
                    /\ UNCHANGED <<rules, ruleFile, lastOp, remote, calls, lastUpdate, stats,
                                   cur, suggested_category, suggestion_source, prompted>>
             [] kind = "accept" -> Apply(suggested_category, outcome, FALSE)

AnswerManual(typed) ==
    /\ pc = "ask_manual"
    /\ UNCHANGED reportVars
    /\ quitAt' = IF TypedQuit(typed) THEN cur ELSE quitAt
    /\ selected' = NoSelection
    /\ UNCHANGED <<categories_cache, categoryFetch, remoteCategories, uncategorized, categories, category_list>>
    /\ LET kind == ManualChoice(typed)
       IN  CASE kind = "quit" -> Quit
             [] kind = "select" ->
                    /\ pc' = "select_manual"
                    /\ UNCHANGED <<rules, ruleFile, lastOp, remote, calls, lastUpdate, stats,
                                   cur, suggested_category, suggestion_source, prompted>>
             [] kind = "skip" -> Skip

SelectCategory(typed, outcome) ==
    /\ pc \in {"select_suggest", "select_manual"}
    /\ UNCHANGED reportVars
    /\ quitAt' = quitAt
    /\ selected' = [idx |-> cur,
                    category |-> SelectCategoryFrom(category_list, typed),
                    manual |-> pc = "select_manual"]
    /\ UNCHANGED <<categories_cache, categoryFetch, remoteCategories, uncategorized, categories, category_list>>
    /\ LET selected_category == SelectCategoryFrom(category_list, typed)
       IN  IF ~Falsy(selected_category)
           THEN Apply(selected_category, outcome, pc = "select_manual")
           ELSE Skip

AnswerSaveRule(typed) ==
    /\ pc = "ask_save"
    /\ UNCHANGED reportVars
    /\ UNCHANGED <<categories_cache, categoryFetch, selected, remoteCategories, uncategorized, categories,
                   category_list, rules, ruleFile, lastOp, remote, calls, lastUpdate, stats,
                   quitAt>>
    /\ IF Lower(Strip(typed)) = "s"
       THEN IF uncategorized[cur].payee_name = None
            THEN \* payee_name.lower() on None raises AttributeError
                 /\ pc' = "raised"
                 /\ UNCHANGED <<cur, suggested_category, suggestion_source, prompted>>
            ELSE /\ pc' = "ask_keyword"
                 /\ UNCHANGED <<cur, suggested_category, suggestion_source, prompted>>
       ELSE Present(cur + 1, rules, uncategorized)

AnswerKeyword(typed) ==
    /\ pc = "ask_keyword"
    /\ UNCHANGED reportVars
    /\ UNCHANGED <<categories_cache, categoryFetch, selected, remoteCategories, uncategorized, categories,
                   category_list, remote, calls, lastUpdate, stats, quitAt>>
    /\ LET keyword == ExtractKeyword(uncategorized[cur].payee_name, typed)
       IN  IF ~Falsy(keyword)
           THEN LET r == AddRule(rules, ruleFile, suggested_category, keyword)
                IN  /\ rules' = r.rules
                    /\ ruleFile' = r.file
                    /\ lastOp' = [op |-> "add_rule", prev |-> Signature(lastOp),
                                  category |-> suggested_category,
                                  keyword |-> keyword, saved |-> r.saved]
                    /\ Present(cur + 1, r.rules, uncategorized)
           ELSE /\ UNCHANGED <<rules, ruleFile, lastOp>>
                /\ Present(cur + 1, rules, uncategorized)

Next ==
    \/ \E catsOk \in BOOLEAN, txOk \in BOOLEAN : StartSession(catsOk, txOk)
    \/ \E typed \in AcceptInputs, outcome \in UpdateOutcomes : AnswerAccept(typed, outcome)
    \/ \E typed \in ManualInputs : AnswerManual(typed)
    \/ \E typed \in SelectInputs, outcome \in UpdateOutcomes : SelectCategory(typed, outcome)
    \/ \E typed \in SaveInputs : AnswerSaveRule(typed)
    \/ \E typed \in KeywordInputs : AnswerKeyword(typed)

Spec == Init /\ [][Next]_vars

(***************************************************************************)
(* The rule store on its own: add_rule, _save_rules and the construction   *)
(* of a new instance (which loads the file), called in any order.          *)
(***************************************************************************)
StoreFiles == {NoFile, BrokenFile, SaveRules(CustomRules)}
RuleCategories == {"Gasolina", "Hogar"}
RuleKeywords == {"fuel", " Fuel ", "IKEA"}

InitRules ==
    /\ InitStore(StoreFiles)
    /\ categories_cache = NoCache
    /\ categoryFetch = NoFetch
    /\ remoteCategories = ServiceCategories
    /\ remote = <<>>
    /\ calls = <<>>
    /\ InitSession
    /\ today = 308
    /\ remoteMonth = <<>>
    /\ InitReporting

CallAddRule(category, keyword) ==
    /\ LET r == AddRule(rules, ruleFile, category, keyword)
       IN  /\ rules' = r.rules
           /\ ruleFile' = r.file
           /\ lastOp' = [op |-> "add_rule", prev |-> Signature(lastOp), category |-> category,
                         keyword |-> keyword, saved |-> r.saved]
    /\ UNCHANGED <<serviceVars, sessionVars, reportVars>>

CallSaveRules ==
    /\ ruleFile' = SaveRules(rules)
    /\ lastOp' = [op |-> "save", prev |-> Signature(lastOp), category |-> "", keyword |-> "",
                  saved |-> TRUE]
    /\ UNCHANGED <<rules, serviceVars, sessionVars, reportVars>>

\* __init__ of a new instance: self.categorization_rules = self._load_rules()
Reload ==
    /\ rules' = LoadRules(ruleFile)
    /\ lastOp' = [op |-> "load", prev |-> Signature(lastOp), category |-> "", keyword |-> "",
                  saved |-> FALSE]
    /\ UNCHANGED <<ruleFile, serviceVars, sessionVars, reportVars>>

NextRules ==
    \/ \E category \in RuleCategories, keyword \in RuleKeywords : CallAddRule(category, keyword)
    \/ CallSaveRules
    \/ Reload

SpecRules == InitRules /\ [][NextRules]_vars

(***************************************************************************)
(* The budget comparison alone: a budget month on the service, fetched and *)
(* turned into the rows of the HTML report and of the e-mail.              *)
(***************************************************************************)
MaxBudgetLines == 2

BudgetNames == {"Supermercado", "Gasolina", "Inflow: Ready to Assign",
                "Sin categor!a"}

\* (budgeted, activity, balance) in thousandths
BudgetFigures ==
    { <<3000, -2400, 600>>,        \* exactly 20% left
      <<100000, -80000, 20000>>,   \* exactly 20% left
      <<100000, -85000, 15000>>,
      <<100000, -120000, -20000>>,
      <<100000, 0, 100000>>,
      <<0, 0, 0>>,
      <<0, -5000, -5000>>,
      <<0, 5000, 5000>> }

BudgetLine(name, f) ==
    [id |-> "id-" \o name, name |-> name,
     budgeted |-> f[1], activity |-> f[2], balance |-> f[3]]

BudgetMonths ==
    UNION { { [i \in 1..n |-> BudgetLine(names[i], figs[i])] :
                names \in { ns \in [1..n -> BudgetNames] :
                              \A i, j \in 1..n : i # j => ns[i] # ns[j] },
                figs \in [1..n -> BudgetFigures] } :
            n \in 0..MaxBudgetLines }

InitBudget ==
    /\ InitStore({NoFile})
    /\ categories_cache = NoCache
    /\ categoryFetch = NoFetch
    /\ remoteCategories = ServiceCategories
    /\ remote = <<>>
    /\ calls = <<>>
    /\ InitSession
    /\ today = 308
    /\ remoteMonth \in BudgetMonths
    /\ InitReporting

\* lines 486-489 and 520-523: a failed fetch leaves an empty budget
FetchMonthlyBudget(netOk) ==
    /\ monthly_budget' = IF netOk THEN GetMonthlyBudget(remoteMonth) ELSE <<>>
    /\ UNCHANGED <<storeVars, serviceVars, sessionVars, today, report,
                   remoteMonth, budget_data, command>>

GenerateHtmlBudget ==
    /\ budget_data' = [view |-> "html", rows |-> HtmlBudgetData(monthly_budget)]
    /\ UNCHANGED <<storeVars, serviceVars, sessionVars, today, report,
                   remoteMonth, monthly_budget, command>>

GenerateEmailBudget ==
    /\ budget_data' = [view |-> "email",
                       rows |-> EmailBudgetRows(monthly_budget)]
    /\ UNCHANGED <<storeVars, serviceVars, sessionVars, today, report,
                   remoteMonth, monthly_budget, command>>

\* print_report(title, report, monthly_budget) with a report of the month
PrintReport(printed) ==
    /\ budget_data' = [view |-> "console",
                       rows |-> PrintBudgetRows(printed, monthly_budget)]
    /\ UNCHANGED <<storeVars, serviceVars, sessionVars, today, report,
                   remoteMonth, monthly_budget, command>>

\* the reports handed to print_report: one expense category, and two
PrintedReports ==
    { ReportData("month", today, WithIds(l), VisibleCategories(remoteCategories)) :
        l \in { <<ReportTx("2026-11-03", "MERCADONA MADRID", -45000, "cat-super",
                           FALSE, None)>>,
                <<ReportTx("2026-11-03", "MERCADONA MADRID", -45000, "cat-super",
                           FALSE, None),
                  ReportTx("2026-11-02", "Cepsa", -30000, "cat-gas", FALSE,
                           None)>> } }

NextBudget ==
    \/ \E netOk \in BOOLEAN : FetchMonthlyBudget(netOk)
    \/ GenerateHtmlBudget
    \/ GenerateEmailBudget
    \/ \E printed \in PrintedReports : PrintReport(printed)

SpecBudget == InitBudget /\ [][NextBudget]_vars

(***************************************************************************)
(* Reporting alone: the transactions on the service, a day, and the two    *)
(* readers of the transaction list.                                        *)
(***************************************************************************)
MaxReportTx == 2

\* a categorized expense, an uncategorized one, an income under a hidden
\* category, a zero amount, a deleted entry, two transfers, an entry dated
\* after every day drawn, one dated before every window, and an expense of
\* the same amount as the first under another category
ReportTxPool == {
    ReportTx("2026-11-03", "MERCADONA MADRID", -45000, "cat-super", FALSE, None),
    ReportTx("2026-11-01", "NETFLIX.COM", -12000, None, FALSE, None),
    ReportTx("2026-10-28", "Nomina", 2000000, "cat-ropa", FALSE, None),
    ReportTx("2026-11-02", "Ajuste", 0, "cat-super", FALSE, None),
    ReportTx("2026-11-01", "Zara", -20000, None, TRUE, None),
    ReportTx("2026-11-01", "Transfer : Savings", -500000, None, FALSE,
             "acct-savings"),
    ReportTx("2026-11-03", "Transfer : Checking", 300000, "cat-gas", FALSE,
             "acct-checking"),
    ReportTx("2026-11-05", "Repsol", -7000, "cat-gas", FALSE, None),
    ReportTx("2026-10-25", "Bar Pepe", -9000, "cat-rest", FALSE, None),
    ReportTx("2026-11-02", "Cepsa", -45000, "cat-gas", FALSE, None) }

\* Sunday 1 November and Wednesday 4 November 2026
ReportDays == {305, 308}

InitReport ==
    /\ InitStore({NoFile})
    /\ categories_cache = NoCache
    /\ categoryFetch = NoFetch
    /\ remoteCategories = ServiceCategories
    /\ remote \in {WithIds(l) : l \in SeqsUpTo(ReportTxPool, MaxReportTx)}
    /\ calls = <<>>
    /\ InitSession
    /\ today \in ReportDays
    /\ remoteMonth = <<>>
    /\ InitReporting

\* get_report_data: the transactions request, then get_categories
GetReportData(period, txOk, catsOk) ==
    LET gc == GetCategories(categories_cache, remoteCategories, catsOk)
    IN  /\ categories_cache' = IF txOk THEN gc.cache ELSE categories_cache
        /\ categoryFetch' = IF txOk THEN NoteFetch(categoryFetch, gc)
                             ELSE categoryFetch
        /\ report' = IF txOk /\ gc.ok
                     THEN ReportData(period, today, remote, gc.map)
                     ELSE Raised
        /\ UNCHANGED <<storeVars, remoteCategories, remote, sessionVars, today,
                       remoteMonth, monthly_budget, budget_data, command>>

\* get_uncategorized_transactions, called on its own and answered
FetchUncategorized ==
    /\ uncategorized' = GetUncategorizedTransactions(remote)
    /\ UNCHANGED <<storeVars, serviceVars, reportVars, pc, categories,
                   category_list, cur, stats, suggested_category,
                   suggestion_source, calls, prompted, quitAt, lastUpdate,
                   selected>>

\* generate_html_report(api_token, weeks_back) of generate_html_report.py:
\* a new YNABAutoCategorizer, then categorizer.get_weekly_report(weeks_back).
\* The class defines no get_weekly_report, so the attribute lookup raises
\* AttributeError before any request and before any HTML is built.
GenerateWeeksBackReport(weeks_back) ==
    /\ command' = [NoCommand EXCEPT !.name = "weeks_back", !.raised = TRUE]
    /\ UNCHANGED <<storeVars, serviceVars, sessionVars, today, report,
                   remoteMonth, monthly_budget, budget_data>>

\* the look-backs asked for, in weeks
WeeksBack == {1, 2, 4}

NextReport ==
    \/ \E period \in {"week", "month"}, txOk, catsOk \in BOOLEAN :
           GetReportData(period, txOk, catsOk)
    \/ FetchUncategorized
    \/ \E weeks_back \in WeeksBack : GenerateWeeksBackReport(weeks_back)

SpecReport == InitReport /\ [][NextReport]_vars

(***************************************************************************)
(* The report and e-mail commands: show_full_report and send_email_report  *)
(* on one instance, each run as a whole.  Every request of a run has its   *)
(* own outcome.                                                            *)
(***************************************************************************)
\* one call of get_report_data with the cache and the request history
\* threaded through: the transactions request first, then get_categories
ReportCall(cache, h, period, txOk, catsOk) ==
    IF ~txOk THEN [report |-> Raised, cache |-> cache, history |-> h]
    ELSE LET gc == GetCategories(cache, remoteCategories, catsOk)
         IN  [report  |-> IF gc.ok
                          THEN ReportData(period, today, remote, gc.map)
                          ELSE Raised,
              cache   |-> gc.cache,
              history |-> NoteFetch(h, gc)]

\* line 492 and 526: the monthly report after the weekly call w; an
\* exception in the weekly call leaves the monthly one uncalled
MonthlyAfter(w, monthTx, monthCats) ==
    IF w.report = Raised
    THEN [report |-> NoReport, cache |-> w.cache, history |-> w.history]
    ELSE ReportCall(w.cache, w.history, "month", monthTx, monthCats)

\* lines 486-489 and 520-523: try get_monthly_budget, except: {}
BudgetOrEmpty(budgetOk) ==
    IF budgetOk THEN GetMonthlyBudget(remoteMonth) ELSE <<>>

\* the read requests of one run, in the order they are issued
Requests == {"budget", "week_transactions", "week_categories",
             "month_transactions", "month_categories"}

\* lines 485-495 and 519-529: the budget, the weekly and the monthly report,
\* then the document built from them; failed holds the requests that fail if
\* issued, sent tells whether the document reaches its reader
BuildReport(name, view, failed, sent) ==
    \E w \in {ReportCall(categories_cache, categoryFetch, "week",
                         "week_transactions" \notin failed,
                         "week_categories" \notin failed)} :
    \E m \in {MonthlyAfter(w, "month_transactions" \notin failed,
                           "month_categories" \notin failed)} :
    \E budget \in {BudgetOrEmpty("budget" \notin failed)} :
        LET raised == w.report = Raised \/ m.report = Raised
        IN  /\ monthly_budget' = budget
            /\ categories_cache' = m.cache
            /\ categoryFetch' = m.history
            /\ budget_data' =
                   IF raised THEN budget_data
                   ELSE [view |-> view,
                         rows |-> IF view = "html" THEN HtmlBudgetData(budget)
                                  ELSE EmailBudgetRows(budget)]
            /\ command' = [name |-> name, budget_failed |-> "budget" \in failed,
                           raised |-> raised, generated |-> ~raised,
                           delivered |-> ~raised /\ sent,
                           weekly |-> w.report, monthly |-> m.report,
                           details |-> IF ~raised /\ view = "html"
                                       THEN MergeDetails(w.report, m.report)
                                       ELSE <<>>]
            /\ UNCHANGED <<storeVars, remoteCategories, remote, sessionVars,
                           today, report, remoteMonth>>

\* show_full_report: the HTML file written by generate_html_report is handed
\* to the browser
ShowFullReport(failed) == BuildReport("report", "html", failed, TRUE)

\* send_email_report without GMAIL_USER or GMAIL_APP_PASSWORD: returns False
\* before any request
SendEmailUnconfigured ==
    /\ command' = [NoCommand EXCEPT !.name = "email"]
    /\ UNCHANGED <<storeVars, serviceVars, sessionVars, today, report,
                   remoteMonth, monthly_budget, budget_data>>

\* send_email_report with the credentials set: the message is sent over SMTP,
\* a failure there is caught and returned as False
SendEmailReport(failed, smtpOk) == BuildReport("email", "email", failed, smtpOk)

\* the failures of one run: none, one request, or the budget with a later one
Failures ==
    {{}} \cup {{r} : r \in Requests} \cup {{"budget", "month_transactions"}}

\* the transactions on the service: none; a categorized expense; the same
\* with an uncategorized one; the same after a transfer; two of one day and
\* amount after an earlier one; two of one day and amount on the first of
\* the month with a later one and one of the month before
CommandRemotes == {
    <<>>,
    WithIds(<<ReportTx("2026-11-03", "MERCADONA MADRID", -45000, "cat-super",
                       FALSE, None)>>),
    WithIds(<<ReportTx("2026-11-03", "MERCADONA MADRID", -45000, "cat-super",
                       FALSE, None),
              ReportTx("2026-11-01", "NETFLIX.COM", -12000, None, FALSE,
                       None)>>),
    WithIds(<<ReportTx("2026-11-01", "Transfer : Savings", -500000, None,
                       FALSE, "acct-savings"),
              ReportTx("2026-11-03", "MERCADONA MADRID", -45000, "cat-super",
                       FALSE, None)>>),
    WithIds(<<ReportTx("2026-11-01", "Lidl", -45000, "cat-super", FALSE, None),
              ReportTx("2026-11-03", "MERCADONA MADRID", -45000, "cat-super",
                       FALSE, None),
              ReportTx("2026-11-03", "Carrefour", -45000, "cat-super", FALSE,
                       None)>>),
    WithIds(<<ReportTx("2026-11-01", "Lidl", -12000, "cat-super", FALSE, None),
              ReportTx("2026-11-03", "MERCADONA MADRID", -45000, "cat-super",
                       FALSE, None),
              ReportTx("2026-11-01", "Aldi", -12000, "cat-super", FALSE, None),
              ReportTx("2026-10-28", "Dia", -12000, "cat-super", FALSE,
                       None)>>) }

\* a budget whose every category is hidden
HiddenCategories == <<
    [name |-> "Ropa", id |-> "cat-ropa", hidden |-> TRUE] >>

\* the category groups on the service: the usual ones, hidden ones only, none
CommandCategories == {ServiceCategories, HiddenCategories, <<>>}

\* the month on the service: no line, a line spent from, a line budgeted
\* and untouched beside the two pseudo-categories
CommandMonths == {
    <<>>,
    <<BudgetLine("Supermercado", <<100000, -80000, 20000>>)>>,
    <<BudgetLine("Gasolina", <<100000, 0, 100000>>),
      BudgetLine("Inflow: Ready to Assign", <<0, 5000, 5000>>),
      BudgetLine("Sin categor!a", <<0, -5000, -5000>>)>> }

InitCommands ==
    /\ InitStore({NoFile})
    /\ categories_cache = NoCache
    /\ categoryFetch = NoFetch
    /\ remoteCategories \in CommandCategories
    /\ remote \in CommandRemotes
    /\ calls = <<>>
    /\ InitSession
    /\ today \in ReportDays
    /\ remoteMonth \in CommandMonths
    /\ InitReporting

NextCommands ==
    \/ \E failed \in Failures : ShowFullReport(failed)
    \/ SendEmailUnconfigured
    \/ \E failed \in Failures, smtpOk \in BOOLEAN :
           SendEmailReport(failed, smtpOk)

SpecCommands == InitCommands /\ [][NextCommands]_vars



(***************************************************************************)
(* The matcher alone: one payee, one amount and one candidate list, given  *)
(* to suggest_category_with_ai and to the two passes as the session runs   *)
(* them.                                                                   *)
(***************************************************************************)
\* payees with: two table categories; one; a recurring-service token only;
\* a token and the keyword of two categories; a token and a keyword of the
\* subscriptions entry; a registered keyword and a token; no text
MatcherPayees == {"Super Bar", "Fuel Station", "Cloud App", "Ticket Online",
                  "Digital Plus", "NETFLIX Cloud", "Zumo", "", None}

\* thousandths: at the limit, just inside it, a cent, zero, an income and a
\* large expense
MatcherAmounts == {-50000, -49999, -10, 0, 12000, -120000}

\* candidate lists: a full budget, one without the subscriptions category,
\* one without the first table categories, one with a late category only,
\* none
MatcherCandidates == {
    <<"Espect@culos y actividades", "Gasolina", "Restaurantes y bares",
      "Supermercado", "Suscripciones", "Transporte P~blico">>,
    <<"Gasolina", "Restaurantes y bares", "Supermercado">>,
    <<"Espect@culos y actividades", "Suscripciones", "Transporte P~blico">>,
    <<"Espect@culos y actividades">>,
    <<>> }

InitMatcher ==
    /\ InitStore({NoFile})
    /\ categories_cache = NoCache
    /\ categoryFetch = NoFetch
    /\ remoteCategories = ServiceCategories
    /\ remote = <<>>
    /\ calls = <<>>
    /\ pc = "start"
    /\ \E payee \in MatcherPayees, amount \in MatcherAmounts :
           uncategorized = WithIds(<<Tx(payee, amount, None, FALSE, None)>>)
    /\ categories = <<>>
    /\ category_list \in MatcherCandidates
    /\ cur = 1
    /\ stats = [total |-> 1, categorized |-> 0, skipped |-> 0]
    /\ suggested_category = None
    /\ suggestion_source = ""
    /\ prompted = {}
    /\ quitAt = 0
    /\ lastUpdate = NoUpdate
    /\ selected = NoSelection
    /\ today = 308
    /\ remoteMonth = <<>>
    /\ InitReporting

\* suggest_category_with_ai(payee_name, amount, available_categories)
CallSuggest ==
    /\ pc' = "suggested"
    /\ suggested_category' =
           SuggestCategoryWithAI(uncategorized[1].payee_name,
                                 uncategorized[1].amount, category_list)
    /\ suggestion_source' = "IA"
    /\ UNCHANGED <<storeVars, serviceVars, reportVars, uncategorized,
                   categories, category_list, cur, stats, calls, prompted,
                   quitAt, lastUpdate, selected>>

\* lines 230-237: find_category_by_rules, then suggest_category_with_ai when
\* the rule pass gave nothing
CallMatch ==
    /\ pc' = "matched"
    /\ LET s == SessionSuggest(rules, uncategorized[1].payee_name,
                               uncategorized[1].amount, category_list)
       IN  /\ suggested_category' = s.category
           /\ suggestion_source' = s.source
    /\ UNCHANGED <<storeVars, serviceVars, reportVars, uncategorized,
                   categories, category_list, cur, stats, calls, prompted,
                   quitAt, lastUpdate, selected>>

NextMatcher ==
    \/ CallSuggest
    \/ CallMatch

SpecMatcher == InitMatcher /\ [][NextMatcher]_vars

(***************************************************************************)
(* Properties.                                                             *)
(***************************************************************************)
Min(S) == CHOOSE m \in S : \A n \in S : m <= n

\* the pairs of an upper-case letter and its lower-case form, both ways
CasePairs ==
    UNION { { <<SubSeq(UpperChars, i, i), SubSeq(LowerChars, i, i)>>,
              <<SubSeq(LowerChars, i, i), SubSeq(UpperChars, i, i)>> } :
            i \in 1..Len(UpperChars) }

\* two characters that are the same letter, whatever their case
SameLetter(a, b) == a = b \/ <<a, b>> \in CasePairs

\* k occurs in s as a contiguous substring, case ignored
OccursIgnoringCase(k, s) ==
    \E i \in 1..(Len(s) - Len(k) + 1) :
        \A j \in 1..Len(k) : SameLetter(SubSeq(s, i + j - 1, i + j - 1), SubSeq(k, j, j))

\* the rule-set entries one of whose keywords occurs in the payee
RuleHits(d, payee) ==
    {i \in 1..Len(d) : \E j \in 1..Len(d[i].keywords) : OccursIgnoringCase(d[i].keywords[j], payee)}

Presenting == pc \in {"ask_accept", "ask_manual"}

RemoteCategoryOf(id) == remote[CHOOSE i \in 1..Len(remote) : remote[i].id = id].category_id

(* C1: whenever a transaction with a non-empty payee is presented and some *)
(* registered keyword occurs in the payee (case ignored), the suggestion   *)
(* is the first rule-set category having such a keyword and its source is  *)
(* the rule pass, whatever the heuristic table or the subscription         *)
(* fallback would have returned.                                           *)
C1_RulePassFirst ==
    Presenting =>
        LET payee == uncategorized[cur].payee_name
            hits  == IF Falsy(payee) THEN {} ELSE RuleHits(rules, payee)
        IN  hits # {} =>
                /\ suggested_category = rules[Min(hits)].name
                /\ suggestion_source = "reglas"

\* a presented payee that two rule categories match and that the heuristic
\* table would have put in a third category
C1_Witness ==
    /\ pc = "ask_accept"
    /\ LET t == uncategorized[cur]
       IN  /\ ~Falsy(t.payee_name)
           /\ Cardinality(RuleHits(rules, t.payee_name)) >= 2
           /\ suggestion_source = "reglas"
           /\ SuggestCategoryWithAI(t.payee_name, t.amount, category_list)
                 \notin {None, suggested_category}

(* C2: a step in which an update call fails (an error status or a network *)
(* error) leaves the categorized counter and the remote transaction as     *)
(* they were, and the session goes on to the next transaction (or returns  *)
(* normally after the last one).                                           *)
C2_FailedUpdateHandledLocally ==
    [][(calls' # calls /\ (lastUpdate'.outcome.raised
                           \/ ~UpdateSucceeded(lastUpdate'.outcome.status_code))) =>
          /\ stats'.categorized = stats.categorized
          /\ remote' = remote
          /\ cur' = cur + 1
          /\ pc' \in {"ask_accept", "ask_manual", "done"}]_vars

(* C3: once the operator has typed quit at the first prompt of the k-th    *)
(* transaction, the session has returned; no update call was issued for    *)
(* transactions k..n, no prompt was shown past k, and the stats are those  *)
(* of the prefix 1..k-1.                                                   *)
C3_QuitStopsAtOnce ==
    quitAt > 0 =>
        /\ pc = "done"
        /\ cur = quitAt
        /\ \A j \in quitAt..Len(uncategorized) : calls[uncategorized[j].id] = 0
        /\ prompted = 1..quitAt
        /\ stats.total = Len(uncategorized)
        /\ stats.categorized =
              Cardinality({j \in 1..(quitAt - 1) : RemoteCategoryOf(uncategorized[j].id) # None})
        /\ stats.categorized + stats.skipped <= quitAt - 1

\* quit typed on the second transaction after the first was categorized
C3_Witness ==
    /\ quitAt = 2
    /\ pc = "done"
    /\ stats.categorized = 1
    /\ calls[uncategorized[1].id] = 1

(* C4: no transaction receives more than one update call in a session.     *)
C4_AtMostOneUpdate == \A id \in DOMAIN calls : calls[id] <= 1

\* an update failed with an error status and the session moved on
C4_Witness ==
    /\ lastUpdate.idx > 0
    /\ ~lastUpdate.outcome.raised
    /\ lastUpdate.outcome.status_code = 400
    /\ cur > lastUpdate.idx
    /\ Presenting
    /\ calls[uncategorized[lastUpdate.idx].id] = 1

(* C7: an add_rule call that repeats the previous add_rule call, or whose  *)
(* keyword, trimmed and lower-cased, is already listed for the category,   *)
(* changes neither the rule set nor the file.                              *)
C7_AddRuleIdempotent ==
    [][(/\ lastOp'.op = "add_rule"
        /\ \/ lastOp'.prev = <<"add_rule", lastOp'.category, lastOp'.keyword>>
           \/ /\ HasKey(rules, lastOp'.category)
              /\ InList(rules[KeyIndex(rules, lastOp'.category)].keywords,
                        Lower(Strip(lastOp'.keyword))))
       => /\ rules' = rules
          /\ ruleFile' = ruleFile
          /\ ~lastOp'.saved]_vars

\* the same call twice in a row, with a keyword that needs normalising
C7_Witness ==
    /\ lastOp.op = "add_rule"
    /\ lastOp.prev = <<"add_rule", lastOp.category, lastOp.keyword>>
    /\ lastOp.keyword = " Fuel "
    /\ ~lastOp.saved
    /\ InList(rules[KeyIndex(rules, lastOp.category)].keywords, "fuel")

(* C8: a step that changes the rule set is an add_rule call, and after it  *)
(* the file exists and parses to exactly the new rule set; the file is     *)
(* written in no other step.                                               *)
C8_RuleSetPersisted ==
    [][/\ rules' # rules =>
            /\ lastOp'.op = "add_rule"
            /\ ruleFile'.exists
            /\ Parse(ruleFile'.tokens) = [ok |-> TRUE, value |-> rules']
       /\ ruleFile' # ruleFile => rules' # rules]_vars

\* a rule was added and saved, and the next transaction is being presented
C8_Witness ==
    /\ lastOp.op = "add_rule"
    /\ lastOp.saved
    /\ Presenting
    /\ ruleFile.exists
    /\ Parse(ruleFile.tokens) = [ok |-> TRUE, value |-> rules]

(* C9: loading right after a save gives back the rule set that was saved,  *)
(* categories and keywords in the same order; a save right after a save    *)
(* leaves the file as it was.                                              *)
C9_SaveLoadRoundTrip ==
    [][/\ (lastOp.op = "save" /\ lastOp'.op = "load") => rules' = rules
       /\ (lastOp.op = "save" /\ lastOp'.op = "save") => ruleFile' = ruleFile]_vars

\* a rule set with several categories and a grown keyword list, saved and loaded
C9_Witness ==
    /\ lastOp.op = "load"
    /\ lastOp.prev[1] = "save"
    /\ Len(rules) >= 2
    /\ \E i \in 1..Len(rules) : Len(rules[i].keywords) >= 2
    /\ rules # DefaultRules
    /\ rules # CustomRules

(* The budget comparison. *)
MonthLine(name) ==
    CHOOSE line \in {remoteMonth[i] : i \in 1..Len(remoteMonth)} :
        line.name = name

StatusShown(row) ==
    IF budget_data.view = "html" THEN row.status
    ELSE IF row.status_text = "Excedido" THEN "over"
    ELSE IF row.status_text = "Bajo" THEN "low"
    ELSE "ok"

\* the status the figures call for, budgeted and available in thousandths
StatusCalledFor(budgeted, available) ==
    IF available < 0 THEN "over"
    ELSE IF budgeted > 0 /\ 100 * available < 20 * budgeted THEN "low"
    ELSE "ok"

\* C10: every comparison row, of the HTML report and of the e-mail, shows
\* 'over' if the line's available amount is negative, otherwise 'low' if the
\* budgeted amount is positive and the available amount is below 20% of it,
\* otherwise 'ok'.
C10_StatusFromBudgetedAndAvailable ==
    budget_data.view \in {"html", "email"} =>
        \A i \in 1..Len(budget_data.rows) :
            LET row  == budget_data.rows[i]
                line == MonthLine(row.category)
            IN  StatusShown(row) = StatusCalledFor(line.budgeted, line.balance)

\* the same away from a balance of exactly 20% of the budgeted amount
StatusAwayFromBoundary ==
    budget_data.view \in {"html", "email"} =>
        \A i \in 1..Len(budget_data.rows) :
            LET row  == budget_data.rows[i]
                line == MonthLine(row.category)
            IN  100 * line.balance # 20 * line.budgeted =>
                    StatusShown(row) = StatusCalledFor(line.budgeted, line.balance)

(* The report. *)
\* the ordinal of a date written YYYY-MM-DD, read off its digits
RECURSIVE DaysBefore(_)
DaysBefore(month) ==
    IF month = 1 THEN 0 ELSE DaysBefore(month - 1) + MonthDays[month - 1]

DayNumber(date) ==
    DaysBefore(DigitsValue(SubSeq(date, 6, 7), 0))
        + DigitsValue(SubSeq(date, 9, 10), 0)

PeriodStart == DayNumber(SubSeq(report.period, 1, 10))
PeriodEnd == DayNumber(SubSeq(report.period, 14, 23))

InPeriod(date) == PeriodStart <= DayNumber(date) /\ DayNumber(date) <= PeriodEnd

\* deleted=true or a non-null transfer reference
Excluded(t) == t.deleted \/ t.transfer_account_id # None

RECURSIVE SumOf(_, _)
SumOf(f, S) ==
    IF S = {} THEN 0
    ELSE LET x == CHOOSE y \in S : TRUE IN f[x] + SumOf(f, S \ {x})

SumValues(d) == SumOf([i \in 1..Len(d) |-> d[i].value], 1..Len(d))

\* the transactions the report counts: in the period and not excluded
Counted == {i \in 1..Len(remote) : ~Excluded(remote[i]) /\ InPeriod(remote[i].date)}

\* C6: in every report net = total_income - total_expenses, the values of
\* expenses_by_category add up to total_expenses, and what is counted in the
\* totals, the detail lists and transaction_count is exactly the
\* transactions dated within the period's inclusive start and end.
C6_ReportArithmetic ==
    report.status = "ok" =>
        /\ report.net = report.total_income - report.total_expenses
        /\ SumValues(report.expenses_by_category) = report.total_expenses
        /\ report.transaction_count = Cardinality(Counted)
        /\ report.total_expenses =
               SumOf([i \in 1..Len(remote) |-> -remote[i].amount],
                     {i \in Counted : remote[i].amount < 0})
        /\ report.total_income =
               SumOf([i \in 1..Len(remote) |-> remote[i].amount],
                     {i \in Counted : remote[i].amount >= 0})
        /\ \A c \in 1..Len(report.transactions_by_category) :
               \A k \in 1..Len(report.transactions_by_category[c].value) :
                   InPeriod(report.transactions_by_category[c].value[k].date)
        /\ SumOf([c \in 1..Len(report.transactions_by_category) |->
                      Len(report.transactions_by_category[c].value)],
                 1..Len(report.transactions_by_category)) = Cardinality(Counted)

\* a report with an expense counted while the service also holds a
\* transaction dated after the period's end
C6_Witness ==
    /\ report.status = "ok"
    /\ report.total_expenses > 0
    /\ \E i \in 1..Len(remote) :
           ~Excluded(remote[i]) /\ DayNumber(remote[i].date) > PeriodEnd

Kept(transactions) == SelectSeq(transactions, LAMBDA t : ~Excluded(t))

\* C5: a deleted transaction or one with a transfer reference contributes to
\* nothing in a report: the report is the one the remaining transactions
\* give, every detail belongs to a remaining transaction, and the count is
\* theirs; and no such transaction is in the uncategorized list.
C5_DeletedAndTransfersExcluded ==
    /\ report.status = "ok" =>
           /\ \E period \in {"week", "month"} :
                  LET clean == ReportData(period, today, Kept(remote),
                                          VisibleCategories(remoteCategories))
                  IN  clean.period = report.period /\ clean = report
           /\ \A c \in 1..Len(report.transactions_by_category) :
                  \A k \in 1..Len(report.transactions_by_category[c].value) :
                      LET d == report.transactions_by_category[c].value[k]
                      IN  \E i \in 1..Len(remote) :
                              /\ ~Excluded(remote[i])
                              /\ remote[i].payee_name = d.payee
                              /\ remote[i].date = d.date
                              /\ remote[i].amount = d.amount
           /\ report.transaction_count <= Len(Kept(remote))
    /\ \A k \in 1..Len(uncategorized) : ~Excluded(uncategorized[k])

\* a report and an uncategorized list that both took a transaction while
\* the service holds an uncategorized transfer dated within the period
C5_Witness ==
    /\ report.status = "ok"
    /\ report.transaction_count >= 1
    /\ Len(uncategorized) >= 1
    /\ \E i \in 1..Len(remote) :
           /\ Excluded(remote[i])
           /\ remote[i].category_id = None
           /\ InPeriod(remote[i].date)

\* the last command made at least one request that failed
CommandFailed == command.budget_failed \/ command.raised

\* C11: a transport failure while fetching the categories, the transactions
\* or the month budget aborts the command: the failure reaches the caller and
\* no report is generated, opened or sent.
C11_TransportFailureAborts ==
    (command.name \in {"report", "email"} /\ CommandFailed)
        => /\ command.raised
           /\ ~command.generated
           /\ ~command.delivered

\* the part of C11 the code keeps: a failed transactions or categories
\* request leaves nothing generated, opened or sent
ReportFetchFailureAborts ==
    command.raised => ~command.generated /\ ~command.delivered

\* a file cut short: empty, or not closed by the brace that ends an object
Truncated(file) ==
    file.exists /\ (Len(file.tokens) = 0 \/ file.tokens[Len(file.tokens)] # "}")

\* a rule set the matcher and add_rule can work with: names with keyword lists
IsRuleSet(d) ==
    /\ \A i \in 1..Len(d) : d[i].name \in STRING /\ d[i].keywords \in Seq(STRING)
    /\ \A i, j \in 1..Len(d) : d[i].name = d[j].name => i = j

\* the rule set has just been loaded, at construction or by a new instance
JustLoaded == lastOp.op \in {"none", "load"}

LoadedWrittenFile ==
    /\ lastOp.op = "load"
    /\ lastOp.prev[1] = "add_rule"
    /\ rules # DefaultRules
    /\ ruleFile.tokens = Dump(rules)

\* the text typed at the category list names no entry of the list: blank,
\* not a number, zero, negative or past the end
BadIndex(typed, list) ==
    LET choice == Strip(typed)
        n      == ParseInt(choice)
    IN  \/ choice = ""
        \/ ~n.ok
        \/ n.value <= 0
        \/ n.value > Len(list)

\* C13: in the category-selection sub-prompt a blank, non-numeric, zero,
\* negative or too-large index never raises: no category is applied, no
\* update call is issued and the transaction is counted as skipped.
C13_BadIndexSkips ==
    [][(pc \in {"select_suggest", "select_manual"}) =>
          ( /\ \A typed \in SelectInputs :
                   BadIndex(typed, category_list)
                       => SelectCategoryFrom(category_list, typed) = None
            /\ selected'.category = None
                   => ( /\ pc' # "raised"
                        /\ calls' = calls
                        /\ remote' = remote
                        /\ stats'.categorized = stats.categorized
                        /\ stats'.skipped = stats.skipped + 1 ) )]_vars

\* the answer at the list of three categories named none of them and the
\* transaction was counted as skipped
C13_Witness ==
    /\ selected.idx > 0
    /\ selected.category = None
    /\ Len(category_list) = 3
    /\ stats.skipped > 0
    /\ \A id \in DOMAIN calls : calls[id] = 0

\* the service holds no live, non-transfer transaction without a category
NothingToCategorize ==
    \A i \in 1..Len(remote) :
        \/ remote[i].category_id # None
        \/ remote[i].deleted
        \/ remote[i].transfer_account_id # None

ZeroStats == [total |-> 0, categorized |-> 0, skipped |-> 0]

\* C14: when the fetch of uncategorized transactions returns an empty list,
\* interactive_categorize returns {total: 0, categorized: 0, skipped: 0}
\* without reading operator input, issuing an update call or changing the
\* rule set; nothing follows the return.
C14_EmptyFetchReturnsZeroStats ==
    [][/\ (pc = "start" /\ pc' # "raised" /\ NothingToCategorize)
           => /\ pc' = "done"
              /\ uncategorized' = <<>>
              /\ stats' = ZeroStats
              /\ prompted' = {}
              /\ calls' = calls
              /\ remote' = remote
              /\ rules' = rules
              /\ ruleFile' = ruleFile
       /\ (pc = "done" /\ uncategorized = <<>>) => FALSE]_vars

\* the session returned at once although the service holds a transaction:
\* a deleted one
C14_Witness ==
    /\ pc = "done"
    /\ Len(remote) > 0
    /\ NothingToCategorize
    /\ uncategorized = <<>>
    /\ stats = ZeroStats

\* the update call of the current transaction was answered with success
AppliedCurrent ==
    /\ lastUpdate.idx = cur
    /\ ~lastUpdate.outcome.raised
    /\ lastUpdate.outcome.status_code = 200

\* the current transaction had no suggestion shown and the operator chose
\* its category from the list
ChosenManually == selected.idx = cur /\ selected.manual

\* the save-rule prompt or the keyword prompt that follows it is open
SavePrompt == pc \in {"ask_save", "ask_keyword"}

\* C15 as stated: the save-rule prompt appears, and a rule is added, only
\* after a successful apply whose suggestion came from the heuristic pass.
C15_RuleOnlyAfterHeuristicApply ==
    [][/\ SavePrompt' => (AppliedCurrent /\ ~ChosenManually
                          /\ suggestion_source = "IA")'
       /\ (rules' # rules \/ ruleFile' # ruleFile) => pc = "ask_keyword"]_vars

\* C15, amended: the save-rule prompt appears, and a rule is added, only
\* after a successful apply that did not follow a rule-sourced suggestion:
\* either the suggestion shown came from the heuristic pass, or none was
\* shown and the operator chose the category manually.  Hence none after a
\* rule-sourced suggestion, a failed update, a skip or a quit.
C15_RuleOnlyAfterUnruledApply ==
    [][/\ SavePrompt' => /\ AppliedCurrent'
                         /\ ChosenManually' \/ suggestion_source' = "IA"
       /\ (rules' # rules \/ ruleFile' # ruleFile) => pc = "ask_keyword"]_vars

\* a rule was added after a manual choice, for a payee no pass had a
\* suggestion for
C15_Witness ==
    /\ lastOp.op = "add_rule"
    /\ lastOp.saved
    /\ selected.idx = lastUpdate.idx
    /\ selected.manual
    /\ calls[uncategorized[selected.idx].id] = 1

\* a rule was added after an accepted heuristic suggestion
RuleAfterHeuristic ==
    /\ lastOp.op = "add_rule"
    /\ lastOp.saved
    /\ selected.idx = 0

\* the session is at a prompt of a transaction whose payee text is absent
\* or empty
NoPayee ==
    /\ pc \in {"ask_accept", "ask_manual", "select_suggest", "select_manual",
               "ask_save", "ask_keyword"}
    /\ Falsy(uncategorized[cur].payee_name)

\* the step ended in an exception raised by the update request itself
UpdateRaised ==
    /\ pc = "select_manual"
    /\ lastUpdate'.idx = cur
    /\ lastUpdate'.outcome.raised

\* C16: a transaction whose payee text is absent or empty gets no automatic
\* suggestion: it is presented at the manual-categorization prompt, and its
\* processing ends without an error whatever the operator answers, the
\* choice to save a rule included.
C16_NoPayeeHandled ==
    [][/\ (NoPayee' /\ cur' # cur)
            => (pc' = "ask_manual" /\ suggested_category' = None)
       /\ (NoPayee /\ pc' = "raised") => UpdateRaised]_vars

\* the part of C16 the code keeps: no suggestion, the manual prompt, and no
\* error up to the save-rule prompt
NoPayeeHandledUpToSave ==
    [][/\ (NoPayee' /\ cur' # cur)
            => (pc' = "ask_manual" /\ suggested_category' = None)
       /\ (NoPayee /\ pc # "ask_save" /\ pc' = "raised") => UpdateRaised]_vars

\* the entries of the heuristic table whose category is a candidate and one
\* of whose keywords occurs in the payee, case of the payee ignored
PatternHits(payee, candidates) ==
    {i \in 1..Len(Patterns) :
        /\ \E c \in 1..Len(candidates) : candidates[c] = Patterns[i].name
        /\ \E j \in 1..Len(Patterns[i].keywords) :
               OccursIgnoringCase(Patterns[i].keywords[j], payee)}

\* C17: the heuristic pass never returns a category outside the candidate
\* list; when table entries with a candidate category and a keyword inside
\* the lower-cased payee exist, it returns the first of them in table order.
C17_HeuristicAmongCandidates ==
    pc = "suggested" =>
        LET payee == uncategorized[1].payee_name
            hits  == IF Falsy(payee) THEN {}
                     ELSE PatternHits(payee, category_list)
        IN  /\ suggested_category # None
                => \E c \in 1..Len(category_list) :
                       category_list[c] = suggested_category
            /\ hits # {} => suggested_category = Patterns[Min(hits)].name

\* the payee holds the keyword of two table entries, the earlier of which is
\* no candidate: the later one is returned
C17_Witness ==
    /\ pc = "suggested"
    /\ uncategorized[1].payee_name = "Ticket Online"
    /\ category_list = <<"Espect@culos y actividades">>
    /\ suggested_category = "Espect@culos y actividades"

\* C18: when the rule pass and the heuristic pass both yield none, the
\* matcher returns the subscriptions category exactly when the amount is
\* negative and strictly less than 50 units in absolute value, the payee
\* holds a recurring-service token and the subscriptions category is a
\* candidate; otherwise it returns none.
C18_SubscriptionFallback ==
    pc = "matched" =>
        LET payee  == uncategorized[1].payee_name
            amount == uncategorized[1].amount
            none   == \/ Falsy(payee)
                      \/ /\ RuleHits(rules, payee) = {}
                         /\ PatternHits(payee, category_list) = {}
            falls  == /\ ~Falsy(payee)
                      /\ amount < 0
                      /\ -amount < 50 * Scale
                      /\ \E w \in {"app", "cloud", "online", "digital"} :
                             OccursIgnoringCase(w, payee)
                      /\ \E c \in 1..Len(category_list) :
                             category_list[c] = "Suscripciones"
        IN  none => suggested_category =
                        IF falls THEN "Suscripciones" ELSE None

\* the fallback fired for an expense one thousandth inside the limit
C18_Witness ==
    /\ pc = "matched"
    /\ uncategorized[1].payee_name = "Cloud App"
    /\ uncategorized[1].amount = -49999
    /\ suggested_category = "Suscripciones"
    /\ suggestion_source = "IA"

\* at the limit itself the matcher returns none
NoFallbackAtLimit ==
    /\ pc = "matched"
    /\ uncategorized[1].payee_name = "Cloud App"
    /\ uncategorized[1].amount = -50000
    /\ InList(category_list, "Suscripciones")
    /\ suggested_category = None

\* the last command built its document, budget comparison included
Compared == command.generated /\ budget_data.view # "none"

\* the category has transactions in the weekly or the monthly report the
\* last command built
InReports(cat) ==
    \/ DictHas(command.weekly.transactions_by_category, cat)
    \/ DictHas(command.monthly.transactions_by_category, cat)

\* the lines of the service's month that carry the name
LinesNamed(cat) ==
    {i \in 1..Len(remoteMonth) : remoteMonth[i].name = cat}

RowCategories == {budget_data.rows[i].category : i \in 1..Len(budget_data.rows)}

\* C19 as stated: the budget comparison has a row only for a category
\* present in both the report and the budget data, and never for the
\* inflow/ready-to-assign pseudo-category or the uncategorized bucket.
C19_RowsInReportAndBudget ==
    Compared =>
        \A cat \in RowCategories :
            /\ InReports(cat)
            /\ LinesNamed(cat) # {}
            /\ cat \notin {"Inflow: Ready to Assign", "Sin categor!a"}

\* C19, amended: the budget comparison has a row only for a category of the
\* budget data whose activity is not zero or whose budgeted amount is
\* positive, whether or not the report holds the category, and never for the
\* inflow/ready-to-assign pseudo-category or the uncategorized bucket.
C19_RowsFromBudgetAlone ==
    Compared =>
        \A cat \in RowCategories :
            /\ \E i \in LinesNamed(cat) :
                   remoteMonth[i].activity # 0 \/ remoteMonth[i].budgeted > 0
            /\ cat \notin {"Inflow: Ready to Assign", "Sin categor!a"}

\* a month with a budgeted, unspent category beside the two pseudo-lines: the
\* comparison has the one row, for a category no report holds
C19_Witness ==
    /\ Compared
    /\ Len(remoteMonth) = 3
    /\ RowCategories = {"Gasolina"}
    /\ ~InReports("Gasolina")

\* a row for a category the monthly report holds as well
RowAlsoInReport ==
    /\ Compared
    /\ RowCategories = {"Supermercado"}
    /\ DictHas(command.monthly.transactions_by_category, "Supermercado")

\* C20: on one instance the category map is fetched from the service at most
\* once: after the first successful get_categories no later call issues a
\* request, whatever the fetched map contained, an empty map included.
C20_CategoriesFetchedOnce == ~categoryFetch.again

\* the part of C20 the code keeps: a fetched map with an entry is never
\* fetched again
NonEmptyMapFetchedOnce ==
    categoryFetch.again => VisibleCategories(remoteCategories) = <<>>

\* both reports of one command were built from the map fetched for the first
NonEmptyMapReused ==
    /\ command.generated
    /\ categoryFetch.succeeded
    /\ ~categoryFetch.again
    /\ CacheTruthy(categories_cache)

\* C21: the report aggregator supports both window policies, the rolling
\* N-week lookback that generate_html_report(api_token, weeks_back) asks for
\* and the calendar period; a request for either yields a report, not an
\* error.
C21_BothWindowPolicies ==
    /\ command.name = "weeks_back" => (~command.raised /\ command.generated)
    /\ report # NoReport /\ report # Raised => report.status = "ok"

\* the calendar windows of the days drawn: Sunday 1 November 2026 is in the
\* week of Monday 26 October, Wednesday 4 November in that of Monday 2
CalendarWindow(period, day) ==
    IF period = "month"
    THEN (IF day = 305 THEN "2026-11-01 - 2026-11-01"
          ELSE "2026-11-01 - 2026-11-04")
    ELSE (IF day = 305 THEN "2026-10-26 - 2026-11-01"
          ELSE "2026-11-02 - 2026-11-04")

\* the part of C21 the code keeps: a calendar week or month whose requests
\* are answered yields a report over Monday-to-today or 1st-to-today
CalendarPeriodsSupported ==
    [][\A period \in {"week", "month"} :
           GetReportData(period, TRUE, TRUE)
               => /\ report'.status = "ok"
                  /\ report'.period = CalendarWindow(period, today)]_vars

\* the place of a transaction in the answer of the service
PlaceInFetch(id) == CHOOSE i \in 1..Len(remote) : remote[i].id = id

\* the list keeps the order in which the service returned the transactions
InFetchOrder(list) ==
    \A i, j \in 1..Len(list) :
        i < j => PlaceInFetch(list[i].id) < PlaceInFetch(list[j].id)

\* C22: transactions are presented, and update calls issued, strictly in the
\* order the fetch returned them: the session works on one position of the
\* fetched list at a time, every prompt and update call concerns that
\* position, and the position only ever moves to the next one.
C22_FetchOrderKept ==
    [][/\ (pc = "start" /\ pc' \notin {"start", "raised"})
              => InFetchOrder(uncategorized')
       /\ cur' \in {cur, cur + 1}
       /\ prompted' \subseteq (prompted \cup {cur'})
       /\ \A k \in prompted' : k <= cur'
       /\ \A id \in DOMAIN calls :
              calls'[id] # calls[id] => id = uncategorized[cur].id]_vars

\* both transactions of a session were updated, the second after the first
C22_Witness ==
    /\ Len(uncategorized) = 2
    /\ prompted = {1, 2}
    /\ lastUpdate.idx = 2
    /\ calls[uncategorized[1].id] = 1
    /\ calls[uncategorized[2].id] = 1
    /\ PlaceInFetch(uncategorized[1].id) < PlaceInFetch(uncategorized[2].id)

(* C23: in every reachable state of the rule set, after a load and after   *)
(* any sequence of add_rule calls, no category lists the same keyword      *)
(* twice; the same keyword may stand under several categories.             *)
NoKeywordTwice(keywords) ==
    \A j, k \in 1..Len(keywords) : j # k => keywords[j] # keywords[k]

ReportedUnder(t) == CategoryNameOf(VisibleCategories(remoteCategories), t.category_id)

CountedUnder(name) == {i \in Counted : ReportedUnder(remote[i]) = name}

(* C24: a counted transaction (not deleted, no transfer, in the window)    *)
(* with amount exactly 0 is income: its category has an income bucket, to  *)
(* which it adds 0; every expense bucket and total_expenses come from the  *)
(* negative amounts alone; and it is counted in transaction_count.         *)
C24_ZeroAmountIsIncome ==
    report.status = "ok" =>
        /\ \A i \in Counted : remote[i].amount = 0 =>
               DictHas(report.income_by_category, ReportedUnder(remote[i]))
        /\ \A b \in 1..Len(report.income_by_category) :
               LET from == {i \in CountedUnder(report.income_by_category[b].name) :
                                remote[i].amount >= 0}
               IN  /\ from # {}
                   /\ report.income_by_category[b].value =
                          SumOf([i \in 1..Len(remote) |-> remote[i].amount], from)
        /\ \A b \in 1..Len(report.expenses_by_category) :
               LET from == {i \in CountedUnder(report.expenses_by_category[b].name) :
                                remote[i].amount < 0}
               IN  /\ from # {}
                   /\ report.expenses_by_category[b].value =
                          SumOf([i \in 1..Len(remote) |-> -remote[i].amount], from)
        /\ report.total_expenses =
               SumOf([i \in 1..Len(remote) |-> -remote[i].amount],
                     {i \in Counted : remote[i].amount < 0})
        /\ report.transaction_count = Cardinality(Counted)

\* a zero amount alone made its category's income bucket, of value 0, while
\* the same category has an expense
C24_Witness ==
    /\ report.status = "ok"
    /\ report.transaction_count = 2
    /\ \E i \in Counted :
           /\ remote[i].amount = 0
           /\ DictGet(report.income_by_category, ReportedUnder(remote[i]), -1) = 0
           /\ DictGet(report.expenses_by_category, ReportedUnder(remote[i]), 0) > 0

\* the place on the service of the first counted transaction that fed the
\* bucket: a negative amount for an expense bucket, any other for income
FirstExpenseOf(name) ==
    Min({i \in CountedUnder(name) : remote[i].amount < 0})
FirstIncomeOf(name) ==
    Min({i \in CountedUnder(name) : remote[i].amount >= 0})

(* C25: expenses_by_category and income_by_category are each in descending *)
(* order of amount, and buckets of equal amount stand in the order in      *)
(* which they first appeared among the processed transactions.             *)
C25_SortedDescendingStable ==
    report.status = "ok" =>
        /\ \A a, b \in 1..Len(report.expenses_by_category) : a < b =>
               LET x == report.expenses_by_category[a]
                   y == report.expenses_by_category[b]
               IN  /\ x.value >= y.value
                   /\ x.value = y.value =>
                          FirstExpenseOf(x.name) < FirstExpenseOf(y.name)
        /\ \A a, b \in 1..Len(report.income_by_category) : a < b =>
               LET x == report.income_by_category[a]
                   y == report.income_by_category[b]
               IN  /\ x.value >= y.value
                   /\ x.value = y.value =>
                          FirstIncomeOf(x.name) < FirstIncomeOf(y.name)

\* two expense buckets of equal amount, the one seen first not the first
\* by name
C25_Witness ==
    /\ report.status = "ok"
    /\ Len(report.expenses_by_category) = 2
    /\ report.expenses_by_category[1].value = report.expenses_by_category[2].value
    /\ report.expenses_by_category[1].name = "Supermercado"
    /\ report.expenses_by_category[2].name = "Gasolina"

\* the transactions whose decision is taken: those before the current one,
\* and the current one once its update call has answered
Processed ==
    IF cur = 0 THEN 0
    ELSE (cur - 1) + (IF cur <= Len(uncategorized) /\ lastUpdate.idx = cur
                         /\ ~lastUpdate.outcome.raised THEN 1 ELSE 0)

\* the transactions whose update call did not succeed: a request went out
\* and the service still holds no category for them
FailedUpdates ==
    {k \in 1..Len(uncategorized) :
        /\ calls[uncategorized[k].id] > 0
        /\ \E i \in 1..Len(remote) :
               remote[i].id = uncategorized[k].id /\ remote[i].category_id = None}

(* C26: in every state of a session categorized + skipped <= the number of *)
(* transactions already processed <= total, where total is the number of   *)
(* fetched uncategorized transactions, also after a quit; at exit          *)
(* categorized + skipped = total whenever the operator never quit and no   *)
(* update failed.                                                          *)
C26_StatsBounds ==
    /\ stats.total = Len(uncategorized)
    /\ stats.categorized + stats.skipped <= Processed
    /\ Processed <= stats.total
    /\ (pc = "done" /\ quitAt = 0) =>
           stats.categorized + stats.skipped + Cardinality(FailedUpdates) = stats.total
    /\ (pc = "done" /\ quitAt = 0 /\ FailedUpdates = {}) =>
           stats.categorized + stats.skipped = stats.total

\* a session run to its end without a quit or a failed update: one
\* transaction categorized, one skipped
C26_Witness ==
    /\ pc = "done" /\ quitAt = 0 /\ FailedUpdates = {}
    /\ stats = [total |-> 2, categorized |-> 1, skipped |-> 1]

\* a quit leaves the counters short of the total
QuitLeavesRest ==
    (pc = "done" /\ quitAt # 0) => stats.categorized + stats.skipped < stats.total

\* the ids of the categories the service shows (hidden ones left out)
VisibleIds ==
    {remoteCategories[i].id : i \in {j \in 1..Len(remoteCategories) :
                                        ~remoteCategories[j].hidden}}

\* the matcher's answer for the current transaction names no category of
\* the fetched map
OutsideMap ==
    /\ pc \in {"ask_accept", "ask_manual", "select_suggest", "select_manual"}
    /\ ~Falsy(suggested_category)
    /\ suggested_category \notin CategoryNames(categories)

\* the category an update call of this step is for: the suggestion accepted
\* or the one picked from the list
CategoryApplied ==
    IF pc = "ask_accept" THEN suggested_category ELSE selected'.category

(* C27: every update call of the session carries the remote id of a        *)
(* category of the fetched map of non-hidden categories; a matcher result  *)
(* naming a category outside that map is never presented as a suggestion   *)
(* and never applied.                                                      *)
C27_OnlyMappedCategories ==
    [][/\ calls' # calls =>
              /\ lastUpdate'.idx = cur
              /\ CategoryApplied \in CategoryNames(categories)
              /\ \E i \in 1..Len(categories) :
                     /\ categories[i].name = CategoryApplied
                     /\ categories[i].id = lastUpdate'.category_id
              /\ lastUpdate'.category_id \in VisibleIds
       /\ OutsideMap' => pc' \in {"ask_manual", "select_manual"}
       /\ \A i \in 1..Len(remote) :
              remote'[i].category_id # remote[i].category_id =>
                  /\ calls' # calls
                  /\ remote'[i].category_id = lastUpdate'.category_id]_vars

\* the rules named a hidden category for the payee: nothing was suggested,
\* and the operator's own choice went out with its id
C27_Witness ==
    /\ pc = "ask_save"
    /\ suggestion_source = "reglas"
    /\ selected.manual /\ selected.idx = cur
    /\ FindCategoryByRules(rules, uncategorized[cur].payee_name) = "Ropa"
    /\ lastUpdate.idx = cur
    /\ lastUpdate.category_id \in VisibleIds
    /\ lastUpdate.category_id # "cat-ropa"

\* the step answers the keyword prompt of the current transaction with the
\* default it proposes, the payee's first significant word
SavesDefaultKeyword ==
    /\ pc = "ask_keyword"
    /\ Len(SignificantWords(uncategorized[cur].payee_name)) > 0
    /\ lastOp'.op = "add_rule"
    /\ lastOp'.category = suggested_category
    /\ lastOp'.keyword = SignificantWords(uncategorized[cur].payee_name)[1]

(* C28: after the operator categorizes a transaction with payee P as C and *)
(* saves a rule accepting the proposed default keyword, every later        *)
(* transaction with the same payee P, later in the session or in a later   *)
(* session that loads the saved file, is suggested C with source rules.    *)
C28_SavedRuleSuggestsCategory ==
    [][SavesDefaultKeyword =>
          /\ FindCategoryByRules(rules', uncategorized[cur].payee_name)
                 = suggested_category
          /\ FindCategoryByRules(LoadRules(ruleFile'), uncategorized[cur].payee_name)
                 = suggested_category
          /\ (cur' <= Len(uncategorized)
                 /\ uncategorized[cur'].payee_name = uncategorized[cur].payee_name) =>
                    /\ pc' = "ask_accept"
                    /\ suggested_category' = suggested_category
                    /\ suggestion_source' = "reglas"]_vars

\* the same with one more premise: no rule matched the payee before the
\* save, so the prompt followed a heuristic suggestion or none at all
SavedRuleWinsWhenNoneMatched ==
    [][(SavesDefaultKeyword
           /\ Falsy(FindCategoryByRules(rules, uncategorized[cur].payee_name))) =>
          /\ FindCategoryByRules(rules', uncategorized[cur].payee_name)
                 = suggested_category
          /\ FindCategoryByRules(LoadRules(ruleFile'), uncategorized[cur].payee_name)
                 = suggested_category
          /\ (cur' <= Len(uncategorized)
                 /\ uncategorized[cur'].payee_name = uncategorized[cur].payee_name) =>
                    /\ pc' = "ask_accept"
                    /\ suggested_category' = suggested_category
                    /\ suggestion_source' = "reglas"]_vars

\* the rule pass never changes its answer for a payee it already matched
RuleAnswerStable ==
    [][\A k \in 1..Len(uncategorized) :
          ~Falsy(FindCategoryByRules(rules, uncategorized[k].payee_name)) =>
              FindCategoryByRules(rules', uncategorized[k].payee_name)
                  = FindCategoryByRules(rules, uncategorized[k].payee_name)]_vars

\* the class each presentation gives a budget line: the HTML report's
\* status, the e-mail's text and the console's mark
HtmlClass(b) == BudgetStatus(b)

EmailClass(b) ==
    CASE StatusText(b) = "Excedido" -> "over"
      [] StatusText(b) = "Bajo" -> "low"
      [] StatusText(b) = "OK" -> "ok"

ConsoleClass(b) ==
    CASE PrintStatus(b) = "(r) Excedido" -> "over"
      [] PrintStatus(b) = "(y) Bajo" -> "low"
      [] PrintStatus(b) = "(g) OK" -> "ok"
      [] OTHER -> "none"

\* the class a row of the last presentation shows
ClassShown(row) ==
    IF budget_data.view = "html" THEN row.status
    ELSE IF budget_data.view = "email"
    THEN (CASE row.status_text = "Excedido" -> "over"
            [] row.status_text = "Bajo" -> "low"
            [] row.status_text = "OK" -> "ok")
    ELSE (CASE row.status_text = "(r) Excedido" -> "over"
            [] row.status_text = "(y) Bajo" -> "low"
            [] row.status_text = "(g) OK" -> "ok"
            [] OTHER -> "none")

\* C29: the three presentations of the budget status, HTML report, e-mail
\* and console, give every line the same class, over, low or ok: whatever
\* a row of one presentation shows is what the other two compute from the
\* same (budgeted, available) pair.
C29_SameStatusEverywhere ==
    \A i \in 1..Len(budget_data.rows) :
        LET row == budget_data.rows[i]
            b   == [budgeted |-> row.budgeted, balance |-> row.available]
        IN  /\ ClassShown(row) \in {"over", "low", "ok"}
            /\ ClassShown(row) = HtmlClass(b)
            /\ ClassShown(row) = EmailClass(b)
            /\ ClassShown(row) = ConsoleClass(b)

\* the same for the lines with a budgeted amount other than zero
SameStatusWhenBudgeted ==
    \A i \in 1..Len(budget_data.rows) :
        LET row == budget_data.rows[i]
            b   == [budgeted |-> row.budgeted, balance |-> row.available]
        IN  b.budgeted # FZero =>
                /\ ClassShown(row) = HtmlClass(b)
                /\ ClassShown(row) = EmailClass(b)
                /\ ClassShown(row) = ConsoleClass(b)

\* the console printed a budgeted line in each of the three classes
ConsoleShowsLow ==
    /\ budget_data.view = "console"
    /\ \E i \in 1..Len(budget_data.rows) : budget_data.rows[i].status_text = "(y) Bajo"

\* a date lies within the period a report prints, 'start - end'
InPeriodOf(period, date) ==
    /\ DayNumber(SubSeq(period, 1, 10)) <= DayNumber(date)
    /\ DayNumber(date) <= DayNumber(SubSeq(period, 14, 23))

\* the transactions on the service the merged details must hold: neither
\* deleted nor a transfer, and dated within the week's or the month's window
InEitherWindow ==
    {i \in 1..Len(remote) :
        /\ ~Excluded(remote[i])
        /\ \/ InPeriodOf(command.weekly.period, remote[i].date)
           \/ InPeriodOf(command.monthly.period, remote[i].date)}

DetailOf(t) ==
    [date |-> t.date, payee |-> t.payee_name, memo |-> "", amount |-> t.amount,
     account |-> ""]

\* the HTML report was built from a weekly and a monthly report
Merged == command.name = "report" /\ command.generated

(* C30: with the weekly and the monthly report built from the same         *)
(* transactions, the merged detail list of each category holds every       *)
(* transaction of either window that is neither deleted nor a transfer     *)
(* exactly once, also when two distinct transactions share date and        *)
(* amount, and is sorted by date, latest first.                            *)
C30_MergedDetailsComplete ==
    Merged =>
        /\ \A i \in InEitherWindow :
               LET list == DictGet(command.details, ReportedUnder(remote[i]), <<>>)
               IN  Cardinality({k \in 1..Len(list) : list[k] = DetailOf(remote[i])})
                     = Cardinality({j \in InEitherWindow :
                                      /\ ReportedUnder(remote[j]) = ReportedUnder(remote[i])
                                      /\ DetailOf(remote[j]) = DetailOf(remote[i])})
        /\ SumOf([c \in 1..Len(command.details) |-> Len(command.details[c].value)],
                 1..Len(command.details)) = Cardinality(InEitherWindow)
        /\ \A c \in 1..Len(command.details) :
               \A a, b \in 1..Len(command.details[c].value) : a < b =>
                   DayNumber(command.details[c].value[a].date)
                       >= DayNumber(command.details[c].value[b].date)

\* a merged list with two details of one day and amount that only the month
\* holds, after a later one the week holds as well
C30_Witness ==
    /\ Merged
    /\ \E c \in 1..Len(command.details) :
           LET list == command.details[c].value
               week == DictGet(command.weekly.transactions_by_category,
                               command.details[c].name, <<>>)
           IN  /\ Len(list) = 3
               /\ Len(week) = 1
               /\ list[1] = week[1]
               /\ list[2].date = list[3].date
               /\ list[2].amount = list[3].amount
               /\ list[2].payee # list[3].payee

\* the week reaches back before the first of the month: a detail of the
\* week alone is in the merged list, before it one the month holds too
WeekBeforeMonthMerged ==
    /\ Merged
    /\ \E c \in 1..Len(command.details) :
           LET list == command.details[c].value
           IN  /\ Len(list) = 3
               /\ ~InPeriodOf(command.monthly.period, list[3].date)
               /\ InPeriodOf(command.monthly.period, list[1].date)

====
